---- MODULE Spec2Model ----
(***************************************************************************)
(* Model of the replica-aware connection router of dronm/ds, v3            *)
(* (src/v3/pgds/pgds.go): one Provider with a primary handle and a map of  *)
(* secondary handles, a caller issuing GetPrimary / GetSecondary / Release *)
(* calls one after another, and the environment the calls run against     *)
(* (the caller's context, the replicas' WAL receive positions, and the     *)
(* outcome of each pool operation).                                        *)
(*                                                                         *)
(* Time is the wall clock read by time.Now(), in milliseconds, counted from *)
(* the entry of the call.  It passes at the suspension points of a call    *)
(* only: the pool acquisitions, the probe's round trip and time.Sleep.     *)
(* The router reads the clock once per polling pass, so the time the       *)
(* blocking calls of a pass take is added when the pass ends.  The caller  *)
(* releases the lease it was given before it issues its next call.         *)
(*                                                                         *)
(* More machines stand beside the router, each with a specification of    *)
(* its own that leaves the others at rest: one db handle under concurrent  *)
(* callers of acquire and close (DBSpec), the provider registries of v3    *)
(* and v1 (RegSpec), the v3 registry under goroutines that run Register    *)
(* and NewProvider statement by statement (ConcSpec), the Provider         *)
(* instances that NewProvider("pg", cfg) builds (InstSpec), and the        *)
(* ref-counting PgProvider of v1 and v2 (PgSpec).  HookSpec is the router  *)
(* with the package variable replicaHasLSNFn reassigned between calls, and *)
(* TermSpec the router with its polling passes counted and its steps       *)
(* scheduled fairly; PgTermSpec is PgSpec with the rounds of the           *)
(* least-busy loop scheduled fairly.                                       *)
(***************************************************************************)
EXTENDS Integers, FiniteSets, Sequences, TLC

(* ---------------------------- bounds ----------------------------------- *)

\* Largest number of secondaries a Config names.
MaxSecondaries == 2
\* The blocking calls of one polling pass (pool acquisitions, probes) take
\* 0..MaxDelay polling steps of time together.
MaxDelay == 1
\* Largest WAL position a replica reports; the watermarks range over 0..MaxLSN.
MaxLSN == 1
\* Number of concurrent callers of one db handle.
MaxCallers == 2
\* Largest number of pools pgxpool.NewWithConfig builds for one db handle.
MaxPools == 2
\* Largest number of Providers ds.NewProvider returns, of secondaries their
\* Configs name, of db handles newDB allocates for them, and of leases out of
\* one of their pools.
MaxProviders == 2
MaxInstSecondaries == 2
MaxHandles == 3
MaxLeases == 2
\* v1/v2 provider: largest number of secondaries InitProvider is given, and
\* largest number of connections the caller holds at a time.
MaxPgSecondaries == 2
MaxConns == 2
\* Number of goroutines that call Register and NewProvider side by side.
MaxThreads == 2

(* ------------------------ program constants ---------------------------- *)

ProviderID == "pg"
PrimaryID == "primary"
\* maxLSNWait and lsnPollStep, in milliseconds
maxLSNWait == 300
lsnPollStep == 50

(* --------------------------- value domains ----------------------------- *)

ReplicaNames == <<"replica1", "replica2", "replica3", "replica4">>
SecondaryIDs == {ReplicaNames[i] : i \in 1..MaxSecondaries}
Handles == {PrimaryID} \cup SecondaryIDs

\* Connection descriptors.  The empty descriptor is what New refuses for the
\* primary.
ConnStrOf(h) == "postgres://" \o h \o "/db"

\* pg_lsn text of a WAL position, and the watermarks a caller passes: the empty
\* watermark, the text of a position, or text that is no pg_lsn at all.
LSNText == <<"0/1", "0/2", "0/3", "0/4">>
NoLSNText == "not-an-lsn"
Watermarks == {""} \cup {LSNText[i] : i \in 1..MaxLSN} \cup {NoLSNText}

\* pg_last_wal_receive_lsn() of a server: a position, or NULL on a server that
\* has received no WAL through streaming replication.
NullLSN == -1
RecvLSNs == {NullLSN} \cup (0..MaxLSN)

Delays == {k * lsnPollStep : k \in 0..MaxDelay}

NilErr == [kind |-> "nil", src |-> ""]
Err(kind, h) == [kind |-> kind, src |-> h]
NilConn == "nil"
NoResult == [conn |-> NilConn, id |-> "", err |-> NilErr]
NoAcq == [st |-> "none", err |-> NilErr]
NoProbe == [id |-> "", ok |-> FALSE, err |-> NilErr]

VARIABLES
    \* ---- the Provider and its handles
    secondaries,  \* Provider.secondaries: ServerID -> connStr of its db handle
    primary,      \* connStr of Provider.primary
    pool,         \* pool[h]: db.pool # nil for handle h
    leased,       \* leased[h]: connections of h's pool checked out and not released
    \* ---- the environment
    recvLSN,      \* recvLSN[id]: pg_last_wal_receive_lsn() of secondary id
    ctxDone,      \* the ctx of the call in progress is cancelled
    now,          \* time.Now(), counted from the entry of the call in progress
    \* ---- the call in progress
    pc,           \* "idle", "loop", "range", "probe", "any", "primary", "done"
    op,           \* "GetPrimary" or "GetSecondary"
    minLSN,       \* the watermark argument
    deadline,     \* local deadline of GetSecondary
    todo,         \* keys the current range over p.secondaries has not visited yet
    cur,          \* key whose lease pc is held between acquire and probe
    result,       \* (PoolConn, ServerID, error) returned by the last call
    \* ---- what happened during the call in progress (observation only)
    secAcqOK,     \* some secondary's acquire succeeded during the call
    secErr,       \* some secondary's acquire or probe returned an error during the call
    primaryAcq,   \* whether p.primary.acquire was called, and its outcome
    probed,       \* answer of the probe on the lease the call holds, once probed
    fallbackAt,   \* time.Now() when the polling loop was left for GetPrimary, or -1
    passes,       \* polling passes the call has started, where they are counted
    lateCancel,   \* the ctx was cancelled after the entry of the call
    stable        \* no replica has moved since the entry of the latest call

provVars == <<secondaries, primary, pool, leased>>
envVars == <<recvLSN, ctxDone, now>>
callVars == <<pc, op, minLSN, deadline, todo, cur, result>>
acqObs == <<secAcqOK, secErr, primaryAcq>>
loopObs == <<fallbackAt, passes>>
obsVars == <<acqObs, probed, loopObs, lateCancel, stable>>
vars == <<provVars, envVars, callVars, obsVars>>

(* ------------------- one connection handle, many callers --------------- *)

\* A db handle (pgds.go:170-215) used by concurrent callers of acquire, close
\* and Release; each caller is at one statement of the method it runs.
VARIABLES
    dPool,        \* d.pool: 0 for nil, k for the k-th pool NewWithConfig built
    dMu,          \* d.mu: 0 when unlocked, else the caller holding it
    dConnOK,      \* pgxpool.ParseConfig accepts d.connStr
    made,         \* number of pools pgxpool.NewWithConfig has built for d
    closeCalls,   \* closeCalls[k]: number of Close() calls on pool k
    cpc,          \* cpc[c]: the statement caller c is at
    cres,         \* cres[c]: the error of the call caller c is in, or last ended
    clease,       \* clease[c]: the pool whose connection c holds, 0 for none
    \* ---- observation only
    closed,       \* some d.close() call has returned
    late          \* late[c]: c's acquire began after a d.close() had returned

dbState == <<dPool, dMu, dConnOK, made, closeCalls>>
callerVars == <<cpc, cres, clease>>
dbVars == <<dbState, callerVars, closed, late>>

(* ------------------------ provider instances --------------------------- *)

\* The Providers ds.NewProvider("pg", cfg) has returned, and the db handles
\* newDB has allocated for them.
VARIABLES
    provs,        \* provs[i]: the i-th Provider: its primary and secondaries fields
    dbs,          \* dbs[h]: the h-th db newDB allocated: connStr, pool # nil, leases out
    plast         \* the call just made and what it returned (observation only)

provState == <<provs, dbs>>
instVars == <<provState, plast>>

(* -------------------------- provider registry -------------------------- *)

\* The process-wide registries: factories of v3 (registry.go:12-15) and
\* provides of v1 (ds.go:14).
VARIABLES
    factories,    \* v3: name -> ProviderFactory
    provides,     \* v1: name -> Provider
    rlast         \* the latest call and what it returned (observation only)

regVars == <<factories, provides, rlast>>

(* ----------------------------- probe hook ------------------------------ *)

\* The package variable replicaHasLSNFn (pgds.go:19): the name of the function
\* it holds.
VARIABLES
    replicaHasLSNFn

hookVars == <<replicaHasLSNFn>>

\* Whether the polling passes of a call are counted (observation only): they
\* are in TermSpec.
VARIABLES
    countPasses

traceVars == <<countPasses>>

(* --------------------- the ref-counting provider (v1/v2) --------------- *)

\* The PgProvider of v1 and v2 (src/pgds/pgds.go, v2 likewise): the one
\* instance pder that init() registers, its caller, and the GetSecondary,
\* GetPrimary or Release call the caller is in.
VARIABLES
    pder,         \* pder.Primary and pder.Secondaries: the Db's, or nil
    conns,        \* conns[<<d, id>>]: connections of the pool of Db d the caller
                  \* holds, handed to it under ServerID id
    ppc,          \* "idle", "srv_loop", "lsn", "primary"
    srvLsn,       \* the argument of the GetSecondary call in progress, or latest
    excluded_ids, \* excluded_ids of the least-busy loop
    lsnTodo,      \* keys the range of the LSN branch has not visited yet
    pool_conn,    \* pool_conn of the LSN branch: the Db it is a connection of
    \* ---- observation only
    tried,        \* the secondaries the least-busy loop has attempted, in order
    refAtEntry,   \* the ref counts of the secondaries at the entry of the call
    pres,         \* the call that ended last and what it returned
    proper,       \* no connection has been released twice so far
    initNil       \* the latest InitProvider that succeeded had nil secondaries

pgState == <<pder, conns>>
pgCall == <<ppc, srvLsn, excluded_ids, lsnTodo, pool_conn>>
pgObs == <<tried, refAtEntry, pres, proper, initNil>>
pgVars == <<pgState, pgCall, pgObs>>

(* ---------------------- the registry under threads --------------------- *)

\* Goroutines inside Register and NewProvider of v3 (registry.go:17-46), one
\* statement at a time, and the lock mu that guards factories.
VARIABLES
    mu,           \* mu: the thread that holds it for writing (0 for none) and
                  \* the threads that hold it for reading
    th,           \* th[t]: the call thread t is in, its position and its locals
    \* ---- observation only
    ins,          \* ins[name]: the insertions of name into factories so far
    race          \* factories was accessed while another thread was writing it

concVars == <<mu, th, ins, race>>

\* The router model leaves the other machines alone, and each of them leaves
\* the rest alone.
sideVars == <<dbVars, instVars, regVars, hookVars, traceVars, pgVars, concVars>>

Callers == 1..MaxCallers
Threads == 1..MaxThreads
PoolIDs == 1..MaxPools

\* newDB(connStr, onNotif): the handle it returns, before any caller uses it;
\* ok tells whether connStr is a descriptor pgxpool.ParseConfig accepts.
newDB(ok) ==
    /\ dPool = 0
    /\ dMu = 0
    /\ dConnOK = ok
    /\ made = 0
    /\ closeCalls = [k \in PoolIDs |-> 0]
    /\ cpc = [c \in Callers |-> "idle"]
    /\ cres = [c \in Callers |-> "none"]
    /\ clease = [c \in Callers |-> 0]
    /\ closed = FALSE
    /\ late = [c \in Callers |-> FALSE]

\* No call made yet.
NoCall == [op |-> "none"]
\* A nil factory or provider.
Nil == "nil"

\* v1/v2: primary server ID, and the ServerIDs and Db's of the model.
PRIMARY_ID == "primary"
PgSecondaryIDs == {ReplicaNames[i] : i \in 1..MaxPgSecondaries}
PgDbs == {PRIMARY_ID} \cup PgSecondaryIDs
PgTags == PgDbs \cup {""}

\* var pder = &PgProvider{}: both fields nil; no call made.
NoDb == [connStr |-> "", ref |-> 0, Pool |-> FALSE]
PgNoResult == [op |-> "none", conn |-> NilConn, id |-> "", err |-> NilErr]
PgInit ==
    /\ pder = [Primary |-> [nil |-> TRUE, db |-> NoDb],
               Secondaries |-> [nil |-> TRUE, m |-> << >>]]
    /\ conns = [c \in PgDbs \X PgTags |-> 0]
    /\ ppc = "idle"
    /\ srvLsn = ""
    /\ excluded_ids = {}
    /\ lsnTodo = {}
    /\ pool_conn = NilConn
    /\ tried = << >>
    /\ refAtEntry = << >>
    /\ pres = PgNoResult
    /\ proper = TRUE
    /\ initNil = FALSE

\* var replicaHasLSNFn = replicaHasLSN
HookInit == replicaHasLSNFn = "replicaHasLSN"

\* The polling passes are not counted.
NotCounting == countPasses = FALSE

\* A thread outside Register and NewProvider.
IdleThread ==
    [pc |-> "idle", op |-> "", name |-> "", f |-> Nil, exists |-> FALSE,
     factory |-> Nil, panic |-> "", res |-> [kind |-> "", err |-> ""],
     conc |-> FALSE]

\* var mu sync.RWMutex (registry.go:13): nobody holds it.
Unheld == [w |-> 0, r |-> {}]

\* No thread is in the registry.
NoThreads ==
    /\ mu = Unheld
    /\ th = [t \in Threads |-> IdleThread]
    /\ ins = << >>
    /\ race = FALSE

\* No Provider built yet.
NoProviders ==
    /\ provs = << >>
    /\ dbs = << >>
    /\ plast = NoCall

\* factories = map[string]ProviderFactory{} and provides = make(map[string]Provider)
EmptyRegistry ==
    /\ factories = << >>
    /\ provides = << >>
    /\ rlast = NoCall

Keys == DOMAIN secondaries
HandlesOf == {PrimaryID} \cup Keys

\* Number of leases outstanding over all pools of a lease table.
Held(l) ==
    LET S[hs \in SUBSET DOMAIN l] ==
            IF hs = {} THEN 0
            ELSE LET h == CHOOSE x \in hs : TRUE IN l[h] + S[hs \ {h}]
    IN S[DOMAIN l]

(* ------------------------- construction -------------------------------- *)

\* The *pgds.Config values: a primary descriptor (possibly missing) and a
\* descriptor for each of the first n secondary names.
Configs ==
    {[PrimaryConnStr |-> pcs,
      Secondaries |-> [id \in {ReplicaNames[i] : i \in 1..n} |-> ConnStrOf(id)]] :
        pcs \in {ConnStrOf(PrimaryID), ""}, n \in 0..MaxSecondaries}

\* Variant: the primary descriptor is not checked.
NewUnchecked(c) ==
    [ok |-> TRUE, primary |-> c.PrimaryConnStr, secondaries |-> c.Secondaries]

\* New: the Provider built from a Config, or the configuration error.
New(c) ==
    IF c.PrimaryConnStr = ""
    THEN [ok |-> FALSE, primary |-> "", secondaries |-> << >>]
    ELSE [ok |-> TRUE, primary |-> c.PrimaryConnStr, secondaries |-> c.Secondaries]

(* ------------------------- connection handle --------------------------- *)

\* pgxpool.Pool.Acquire(ctx) on the pool of handle h: a cancelled ctx always
\* fails it; otherwise the server decides.
PoolAcquire(h) ==
    IF ctxDone
    THEN {[ok |-> FALSE, err |-> Err("ctx", h)]}
    ELSE {[ok |-> TRUE, err |-> NilErr], [ok |-> FALSE, err |-> Err("acquire", h)]}

\* db.acquire(ctx) on handle h: the outcomes it can have: whether a connection
\* is handed out, the error, and whether d.pool is set afterwards.  While
\* d.pool is nil the pool is set up first, and the call ends with the error
\* of pgxpool.ParseConfig or pgxpool.NewWithConfig ("init") when that fails.
dbAcquire(h) ==
    (IF pool[h] THEN {} ELSE {[ok |-> FALSE, err |-> Err("init", h), pool |-> FALSE]})
    \cup {[ok |-> a.ok, err |-> a.err, pool |-> TRUE] : a \in PoolAcquire(h)}

(* ------------------------- consistency probe --------------------------- *)

IsLSNText(w) == \E i \in 1..Len(LSNText) : LSNText[i] = w
LSNValue(w) == CHOOSE i \in 1..Len(LSNText) : LSNText[i] = w

\* Variant: the comparison is > 0.
lsnCheckQueryStrict(recv, w) ==
    LET diff == IF recv = NullLSN THEN NullLSN ELSE recv - w
        coalesced == IF recv = NullLSN THEN 0 ELSE diff
    IN coalesced > 0

\* lsnCheckQuery: coalesce(pg_wal_lsn_diff(pg_last_wal_receive_lsn(), $1), 0) >= 0
lsnCheckQuery(recv, w) ==
    LET diff == IF recv = NullLSN THEN NullLSN ELSE recv - w
        coalesced == IF recv = NullLSN THEN 0 ELSE diff
    IN coalesced >= 0

\* replicaHasLSN(ctx, conn, minLSN) on a connection to secondary id: the
\* (ok, err) pairs it can return.  The query fails on a cancelled ctx, on a
\* watermark that is no pg_lsn, and whenever the server or the network fails.
replicaHasLSN(id, w) ==
    IF ctxDone THEN {[ok |-> FALSE, err |-> Err("ctx", id)]}
    ELSE IF ~IsLSNText(w) THEN {[ok |-> FALSE, err |-> Err("query", id)]}
    ELSE {[ok |-> lsnCheckQuery(recvLSN[id], LSNValue(w)), err |-> NilErr],
          [ok |-> FALSE, err |-> Err("query", id)]}

(* ------------------------------ Init ----------------------------------- *)

\* The Provider New(c) returns, before any call on it.
RouterInit(c) ==
    /\ New(c).ok
    /\ primary = New(c).primary
    /\ secondaries = New(c).secondaries
    /\ pool = [h \in HandlesOf |-> FALSE]
    /\ leased = [h \in HandlesOf |-> 0]
    /\ recvLSN \in [Keys -> RecvLSNs]
    /\ ctxDone = FALSE
    /\ now = 0
    /\ pc = "idle"
    /\ op = ""
    /\ minLSN = ""
    /\ deadline = 0
    /\ todo = {}
    /\ cur = ""
    /\ result = NoResult
    /\ secAcqOK = FALSE
    /\ secErr = FALSE
    /\ primaryAcq = NoAcq
    /\ probed = NoProbe
    /\ fallbackAt = -1
    /\ passes = 0
    /\ lateCancel = FALSE
    /\ stable = TRUE

Init ==
    /\ \E c \in Configs : RouterInit(c)
    /\ newDB(TRUE)
    /\ NoProviders
    /\ EmptyRegistry
    /\ HookInit
    /\ NotCounting
    /\ PgInit
    /\ NoThreads

\* A Config that names no secondary.
PrimaryOnly == [PrimaryConnStr |-> ConnStrOf(PrimaryID), Secondaries |-> << >>]

(* ----------------------- decisions of the router ----------------------- *)

\* len(p.secondaries) == 0
NoSecondaries == Cardinality(Keys) = 0

\* Variant: a pass still starts when the clock is at the deadline.
LoopContinuesAtDeadline == now <= deadline

\* Variant: the loop is left one polling step before the deadline.
LoopContinuesShort == now + lsnPollStep < deadline

\* time.Now().Before(deadline)
LoopContinues == now < deadline

\* Variant: the answer is not looked at, only the error.
ProbeAcceptsAnyAnswer(r) == r.err = NilErr

\* err == nil && ok, on the probe's answer
ProbeAccepts(r) == r.err = NilErr /\ r.ok

\* Variant: the failure is returned with the primary's ServerID.
GetPrimaryResultTagged(a) ==
    IF a.ok
    THEN [conn |-> PrimaryID, id |-> PrimaryID, err |-> NilErr]
    ELSE [conn |-> NilConn, id |-> PrimaryID, err |-> a.err]

\* Variant: the failure is returned as a new error.
GetPrimaryResultWrapped(a) ==
    IF a.ok
    THEN [conn |-> PrimaryID, id |-> PrimaryID, err |-> NilErr]
    ELSE [conn |-> NilConn, id |-> "", err |-> Err("wrapped", PrimaryID)]

\* What GetPrimary returns for an outcome of p.primary.acquire.
GetPrimaryResult(a) ==
    IF a.ok
    THEN [conn |-> PrimaryID, id |-> PrimaryID, err |-> NilErr]
    ELSE [conn |-> NilConn, id |-> "", err |-> a.err]

\* return wrapPoolConn(c), id, nil
SecondaryResult(id) == [conn |-> id, id |-> id, err |-> NilErr]

\* pgxpool.Conn.Release: the lease goes back to the pool of handle h.
ReleaseLease(l, h) == [l EXCEPT ![h] = @ - 1]

\* Variant: no check for an empty map.
EntryTargetNoEmptyCheck(w) == IF w = "" THEN "any" ELSE "loop"

\* Where GetSecondary goes after its entry checks.
EntryTarget(w) ==
    IF NoSecondaries THEN "primary"
    ELSE IF w = "" THEN "any"
    ELSE "loop"

\* Variant: the test of err is inverted.
AnyStepInverted(id, a) ==
    IF ~a.ok
    THEN [pc |-> "done", result |-> SecondaryResult(id), todo |-> {}]
    ELSE [pc |-> IF todo \ {id} = {} THEN "primary" ELSE "any",
          result |-> result, todo |-> todo \ {id}]

\* No watermark, outcome a of db.acquire on id: return the lease, or go on
\* with the keys left and call GetPrimary after the last one.
AnyStep(id, a) ==
    IF a.ok
    THEN [pc |-> "done", result |-> SecondaryResult(id), todo |-> {}]
    ELSE [pc |-> IF todo \ {id} = {} THEN "primary" ELSE "any",
          result |-> result, todo |-> todo \ {id}]

\* Variant: a failed acquire ends the call with its error.
RangeStepReturnsErr(id, a) ==
    IF a.ok
    THEN [pc |-> "probe", cur |-> id, result |-> result]
    ELSE [pc |-> "done", cur |-> "",
          result |-> [conn |-> NilConn, id |-> "", err |-> a.err]]

\* Watermark, outcome a of db.acquire on id: probe the lease, or skip the key.
RangeStep(id, a) ==
    IF a.ok
    THEN [pc |-> "probe", cur |-> id, result |-> result]
    ELSE [pc |-> "range", cur |-> "", result |-> result]

\* Variant: a rejected lease is not released.
ProbeStepNoRelease(r) ==
    IF ProbeAccepts(r)
    THEN [pc |-> "done", result |-> SecondaryResult(cur), todo |-> {},
          leased |-> leased]
    ELSE [pc |-> "range", result |-> result, todo |-> todo, leased |-> leased]

\* Watermark, answer r of the probe on the lease of cur: return the lease, or
\* release it and go on with the pass.
ProbeStep(r) ==
    IF ProbeAccepts(r)
    THEN [pc |-> "done", result |-> SecondaryResult(cur), todo |-> {},
          leased |-> leased]
    ELSE [pc |-> "range", result |-> result, todo |-> todo,
          leased |-> ReleaseLease(leased, cur)]

InCall == pc \notin {"idle", "done"}

(* ------------------------------ actions -------------------------------- *)

\* A call begins: the caller holds no lease, passes a ctx (possibly already
\* cancelled), and the observations of the previous call are forgotten.
BeginCall ==
    /\ pc \in {"idle", "done"}
    /\ Held(leased) = 0
    /\ ctxDone' \in BOOLEAN
    /\ now' = 0
    /\ secAcqOK' = FALSE
    /\ secErr' = FALSE
    /\ primaryAcq' = NoAcq
    /\ probed' = NoProbe
    /\ fallbackAt' = -1
    /\ passes' = 0
    /\ lateCancel' = FALSE
    /\ stable' = TRUE
    /\ cur' = ""
    /\ result' = NoResult
    /\ UNCHANGED <<provVars, recvLSN, sideVars>>

\* p.GetPrimary(ctx) is called.
CallGetPrimary ==
    /\ BeginCall
    /\ op' = "GetPrimary"
    /\ minLSN' = ""
    /\ pc' = "primary"
    /\ todo' = {}
    /\ deadline' = 0

\* p.GetSecondary(ctx, w) is called and runs up to its first acquisition:
\* the empty-map check, the empty-watermark check, the deadline.
CallGetSecondary(w) ==
    /\ BeginCall
    /\ op' = "GetSecondary"
    /\ minLSN' = w
    /\ pc' = EntryTarget(w)
    /\ todo' = IF EntryTarget(w) = "any" THEN Keys ELSE {}
    /\ deadline' = IF EntryTarget(w) = "loop" THEN now' + maxLSNWait ELSE 0

\* The state a db.acquire on h leaves, for outcome a.
Acquired(h, a) ==
    /\ pool' = [pool EXCEPT ![h] = a.pool]
    /\ leased' = IF a.ok THEN [leased EXCEPT ![h] = @ + 1] ELSE leased
    /\ secAcqOK' = (secAcqOK \/ (h # PrimaryID /\ a.ok))
    /\ secErr' = (secErr \/ (h # PrimaryID /\ ~a.ok))
    /\ primaryAcq' = IF h = PrimaryID
                     THEN [st |-> IF a.ok THEN "ok" ELSE "err", err |-> a.err]
                     ELSE primaryAcq
    /\ UNCHANGED <<secondaries, primary, envVars, op, minLSN, deadline, probed,
                   loopObs, lateCancel, stable, sideVars>>

\* GetPrimary: acquire from the primary handle and return.
PrimaryAcquire ==
    /\ pc = "primary"
    /\ \E a \in dbAcquire(PrimaryID) :
          /\ Acquired(PrimaryID, a)
          /\ result' = GetPrimaryResult(a)
    /\ pc' = "done"
    /\ UNCHANGED <<todo, cur>>

\* No watermark: one step of the range over p.secondaries.
AnyAcquire(id) ==
    /\ pc = "any"
    /\ id \in todo
    /\ \E a \in dbAcquire(id) :
          /\ Acquired(id, a)
          /\ result' = AnyStep(id, a).result
          /\ pc' = AnyStep(id, a).pc
          /\ todo' = AnyStep(id, a).todo
    /\ UNCHANGED cur

\* for time.Now().Before(deadline): a new pass over p.secondaries begins, or
\* the loop is left for GetPrimary.
LoopCheck ==
    /\ pc = "loop"
    /\ IF LoopContinues
       THEN /\ pc' = "range"
            /\ todo' = Keys
            /\ fallbackAt' = fallbackAt
            /\ passes' = IF countPasses THEN passes + 1 ELSE passes
       ELSE /\ pc' = "primary"
            /\ todo' = {}
            /\ fallbackAt' = now
            /\ passes' = passes
    /\ UNCHANGED <<provVars, envVars, op, minLSN, deadline, cur, result, acqObs,
                   probed, lateCancel, stable, sideVars>>

\* One step of a pass: acquire from the next secondary; a failure skips it.
RangeAcquire(id) ==
    /\ pc = "range"
    /\ id \in todo
    /\ \E a \in dbAcquire(id) :
          /\ Acquired(id, a)
          /\ pc' = RangeStep(id, a).pc
          /\ cur' = RangeStep(id, a).cur
          /\ result' = RangeStep(id, a).result
    /\ todo' = todo \ {id}

\* The probe on the lease just acquired: return it when it has reached the
\* watermark, release it otherwise.  The call is replicaHasLSN(ctx, pc.Conn(),
\* minLSN) itself (pgds.go:139); replicaHasLSNFn is not read.
Probe ==
    /\ pc = "probe"
    /\ \E r \in replicaHasLSN(cur, minLSN) :
          /\ result' = ProbeStep(r).result
          /\ pc' = ProbeStep(r).pc
          /\ todo' = ProbeStep(r).todo
          /\ leased' = ProbeStep(r).leased
          /\ probed' = IF ProbeStep(r).pc = "done"
                       THEN [id |-> cur, ok |-> r.ok, err |-> r.err]
                       ELSE NoProbe
          /\ secErr' = (secErr \/ r.err # NilErr)
    /\ cur' = ""
    /\ UNCHANGED <<secondaries, primary, pool, envVars, op, minLSN, deadline,
                   secAcqOK, primaryAcq, loopObs, lateCancel, stable, sideVars>>

\* time.Sleep(lsnPollStep) at the end of a pass; the clock has moved by the
\* sleep and by what the blocking calls of the pass took.
Sleep ==
    /\ pc = "range"
    /\ todo = {}
    /\ \E d \in Delays : now' = now + d + lsnPollStep
    /\ pc' = "loop"
    /\ UNCHANGED <<provVars, recvLSN, ctxDone, op, minLSN, deadline, todo, cur,
                   result, obsVars, sideVars>>

\* p.Release(pc, id): the caller gives back a lease of handle h.
Release(h) ==
    /\ pc \in {"idle", "done"}
    /\ h \in HandlesOf
    /\ leased[h] > 0
    /\ leased' = ReleaseLease(leased, h)
    /\ pc' = "idle"
    /\ UNCHANGED <<secondaries, primary, pool, envVars, op, minLSN, deadline,
                   todo, cur, result, obsVars, sideVars>>

\* The caller cancels the ctx of the call in progress.
Cancel ==
    /\ InCall
    /\ ~ctxDone
    /\ ctxDone' = TRUE
    /\ lateCancel' = TRUE
    /\ UNCHANGED <<provVars, recvLSN, now, callVars, acqObs, probed, loopObs, stable,
                   sideVars>>

\* Secondary id receives more WAL.
Replay(id) ==
    /\ id \in Keys
    /\ recvLSN[id] # NullLSN
    /\ recvLSN[id] < MaxLSN
    /\ recvLSN' = [recvLSN EXCEPT ![id] = @ + 1]
    /\ stable' = IF pc = "idle" THEN stable ELSE FALSE
    /\ UNCHANGED <<provVars, ctxDone, now, callVars, acqObs, probed, loopObs,
                   lateCancel, sideVars>>

Next ==
    \/ CallGetPrimary
    \/ \E w \in Watermarks : CallGetSecondary(w)
    \/ PrimaryAcquire
    \/ \E id \in SecondaryIDs : AnyAcquire(id)
    \/ LoopCheck
    \/ \E id \in SecondaryIDs : RangeAcquire(id)
    \/ Probe
    \/ Sleep
    \/ \E h \in Handles : Release(h)
    \/ Cancel
    \/ \E id \in SecondaryIDs : Replay(id)

Spec == Init /\ [][Next]_vars

(* ------------------------- the polling loop ends ----------------------- *)

\* The router with its polling passes counted, every call it makes returning
\* and the clock advancing: an acquire, a probe or a sleep that can be taken
\* is taken.
TermInit ==
    /\ \E c \in Configs : RouterInit(c)
    /\ newDB(TRUE)
    /\ NoProviders
    /\ EmptyRegistry
    /\ HookInit
    /\ PgInit
    /\ NoThreads
    /\ countPasses = TRUE

CallsReturn ==
    /\ WF_vars(PrimaryAcquire)
    /\ WF_vars(\E id \in SecondaryIDs : AnyAcquire(id))
    /\ WF_vars(LoopCheck)
    /\ WF_vars(\E id \in SecondaryIDs : RangeAcquire(id))
    /\ WF_vars(Probe)
    /\ WF_vars(Sleep)

TermSpec == TermInit /\ [][Next]_vars /\ CallsReturn

\* The passes that fit between the entry of a call and its deadline.
MaxPasses == maxLSNWait \div lsnPollStep

(* --------------------------- the probe hook ---------------------------- *)

\* The functions replicaHasLSNFn can hold: replicaHasLSN, and the stub the
\* tests put in its place.
ProbeFns == {"replicaHasLSN", "stub"}

\* The stub: func(_ context.Context, _ *pgx.Conn, _ string) (bool, error)
\* { return false, nil }.  It issues no query.
stubProbe(id, w) == {[ok |-> FALSE, err |-> NilErr]}

\* A Config with the one secondary "replica1", as the Provider of the tests.
OneSecondary ==
    [PrimaryConnStr |-> ConnStrOf(PrimaryID),
     Secondaries |-> [id \in {ReplicaNames[1]} |-> ConnStrOf(id)]]

\* replicaHasLSNFn = f, between two calls on the Provider.
SetProbeHook(f) ==
    /\ pc \in {"idle", "done"}
    /\ replicaHasLSNFn # f
    /\ replicaHasLSNFn' = f
    /\ UNCHANGED <<vars, dbVars, instVars, regVars, traceVars, pgVars, concVars>>

HookSpecInit ==
    /\ RouterInit(OneSecondary)
    /\ newDB(TRUE)
    /\ NoProviders
    /\ EmptyRegistry
    /\ HookInit
    /\ NotCounting
    /\ PgInit
    /\ NoThreads

HookNext ==
    \/ Next
    \/ \E f \in ProbeFns : SetProbeHook(f)

HookSpec == HookSpecInit /\ [][HookNext]_<<vars, sideVars>>

(* ------------------------------ properties ----------------------------- *)

\* A GetSecondary call, one with a watermark over a non-empty map, one that
\* has returned.
GSCall == op = "GetSecondary"
LSNCall == GSCall /\ minLSN # "" /\ ~NoSecondaries
Returned == pc = "done"

\* Secondary id has received the WAL up to watermark w (a server without a
\* receive position counts as having it, as the query's coalesce says).
AtOrBeyond(id, w) == recvLSN[id] = NullLSN \/ recvLSN[id] >= LSNValue(w)

\* No secondary has reached the watermark.  Replicas only move forward, so
\* this holds of the whole call when it holds at its return.
NoneReached ==
    ~IsLSNText(minLSN) \/ \A id \in Keys : ~AtOrBeyond(id, minLSN)

PrimaryLease == [conn |-> "primary", id |-> "primary", err |-> NilErr]

\* The result is what a GetPrimary call returns: the primary's lease under
\* the primary's ServerID, or the error of the primary's acquire with no
\* connection and no ServerID.
AsGetPrimary ==
    \/ primaryAcq.st = "ok" /\ result = PrimaryLease
    \/ /\ primaryAcq.st = "err"
       /\ primaryAcq.err # NilErr
       /\ result = [conn |-> NilConn, id |-> "", err |-> primaryAcq.err]

\* The leases outstanding when result is all the caller was given.
LeasesOf(r) ==
    [h \in HandlesOf |-> IF r.err = NilErr /\ r.conn = h THEN 1 ELSE 0]

\* C1: a GetSecondary call with a watermark returns a lease under a
\* secondary's ServerID only if the probe on that lease answered true without
\* an error (and the secondary is then at or beyond the watermark); every
\* other return is the primary's lease or an error without a connection.
C1_NoStaleSecondary ==
    (GSCall /\ minLSN # "" /\ Returned) =>
        \/ /\ result.id \in Keys
           /\ result = [conn |-> result.id, id |-> result.id, err |-> NilErr]
           /\ probed = [id |-> result.id, ok |-> TRUE, err |-> NilErr]
           /\ IsLSNText(minLSN)
           /\ AtOrBeyond(result.id, minLSN)
        \/ result = PrimaryLease
        \/ result.err # NilErr /\ result.conn = NilConn /\ result.id = ""

\* C1 witness: a secondary was returned for a watermark.
C1_Witness ==
    GSCall /\ minLSN # "" /\ Returned /\ result.id \in Keys /\ secErr

\* C2: with a watermark and a non-empty map, the polling loop is left for
\* GetPrimary only once maxLSNWait has elapsed since entry; when no candidate
\* ever reaches the watermark the call returns no secondary, and if the
\* primary acquires, the primary's lease under the primary's ServerID.
C2_PollsUntilDeadline ==
    LSNCall =>
        /\ deadline = maxLSNWait
        /\ pc = "primary" => (fallbackAt >= maxLSNWait /\ now >= deadline)
        /\ (Returned /\ result.id \notin Keys) =>
              /\ fallbackAt >= maxLSNWait
              /\ primaryAcq.st # "none"
              /\ primaryAcq.st = "ok" => result = PrimaryLease
        /\ (Returned /\ NoneReached) => result.id \notin Keys
        /\ pc \in {"loop", "range", "probe"} => fallbackAt = -1

\* C2 witness: every probe answered "not reached", without any error, and
\* the primary was returned after the wait.
C2_Witness ==
    /\ LSNCall /\ Returned /\ IsLSNText(minLSN) /\ NoneReached
    /\ secAcqOK /\ ~secErr
    /\ result = PrimaryLease
    /\ fallbackAt >= maxLSNWait

\* C3: without a watermark and with a non-empty map, once a secondary's
\* acquire has succeeded the call has returned that secondary's lease under
\* its ServerID, a key of the map, with a nil error, and the primary was not
\* asked; the primary is asked only after the range has ended with every
\* acquire failed.
C3_AnyReturnsFirstSuccess ==
    (GSCall /\ minLSN = "" /\ ~NoSecondaries) =>
        /\ secAcqOK =>
              /\ pc \in {"done", "idle"}
              /\ result.id \in Keys
              /\ result.id # PrimaryID
              /\ result = [conn |-> result.id, id |-> result.id, err |-> NilErr]
              /\ pool[result.id]
              /\ primaryAcq = NoAcq
              /\ Returned => leased = LeasesOf(result)
        /\ (pc = "primary" \/ (Returned /\ result.id \notin Keys)) =>
              /\ ~secAcqOK
              /\ secErr
              /\ todo = {}

\* C3 witness: one secondary failed, a later one was returned.
C3_Witness ==
    GSCall /\ minLSN = "" /\ Returned /\ secAcqOK /\ secErr /\ result.id \in Keys

\* C4: a GetSecondary call in which no secondary's acquire succeeds returns
\* what GetPrimary returns, with or without a watermark.
C4_AllSecondariesFail ==
    (GSCall /\ Returned /\ ~secAcqOK) => AsGetPrimary

\* C4 witness: with a watermark, a secondary failed to acquire, none
\* succeeded, and the primary's error was returned.
C4_Witness ==
    /\ LSNCall /\ Returned /\ secErr /\ ~secAcqOK
    /\ primaryAcq.st = "err" /\ result.id = ""

\* C5: with a watermark, when no acquire and no probe fails and exactly one
\* secondary c is at or beyond the watermark during the whole call, the call
\* returns the lease of c under the ServerID of c.
C5_ExactlyOneReached ==
    \A c \in Keys :
        ( /\ GSCall /\ Returned /\ IsLSNText(minLSN)
          /\ stable /\ ~secErr
          /\ AtOrBeyond(c, minLSN)
          /\ \A o \in Keys \ {c} : ~AtOrBeyond(o, minLSN) )
        => result = [conn |-> c, id |-> c, err |-> NilErr]

\* C5 witness: two secondaries, one of them at the watermark exactly, and it
\* was returned.
C5_Witness ==
    \E c \in Keys :
        /\ GSCall /\ Returned /\ IsLSNText(minLSN) /\ stable /\ ~secErr
        /\ Cardinality(Keys) >= 2
        /\ recvLSN[c] = LSNValue(minLSN)
        /\ \A o \in Keys \ {c} : ~AtOrBeyond(o, minLSN)
        /\ result.id = c

\* C6: over an empty map GetSecondary neither polls nor probes, whatever the
\* watermark: it goes to the primary's acquire at once and returns what
\* GetPrimary returns.
C6_EmptyMapDelegates ==
    (GSCall /\ NoSecondaries) =>
        /\ pc \in {"primary", "done", "idle"}
        /\ now = 0
        /\ fallbackAt = -1
        /\ probed = NoProbe
        /\ ~secAcqOK /\ ~secErr
        /\ Returned => AsGetPrimary

\* C6 witness: a watermark, an empty map, the primary returned.
C6_Witness ==
    GSCall /\ NoSecondaries /\ minLSN # "" /\ Returned /\ result = PrimaryLease

\* C7: GetPrimary asks the primary handle only; it returns the lease under
\* the ServerID "primary", or the error of the primary's acquire, unchanged,
\* with no connection and an empty ServerID.
C7_GetPrimaryOnlyPrimary ==
    op = "GetPrimary" =>
        /\ pc \in {"primary", "done", "idle"}
        /\ ~secAcqOK /\ ~secErr
        /\ Returned =>
              /\ AsGetPrimary
              /\ result.err # NilErr => result.err.src = "primary"
              /\ leased = LeasesOf(result)

\* C7 witness: the primary failed while a secondary was configured, and the
\* error came back.
C7_Witness ==
    /\ op = "GetPrimary" /\ Returned /\ ~NoSecondaries
    /\ result.err # NilErr /\ result.err = primaryAcq.err

\* C8: when GetSecondary returns, the only lease outstanding is the one it
\* returns: one on success, none on error.
C8_OnlyReturnedLeaseOut ==
    (GSCall /\ Returned) =>
        /\ leased = LeasesOf(result)
        /\ result.err = NilErr => result.conn \in HandlesOf
        /\ Held(leased) = IF result.err = NilErr THEN 1 ELSE 0

\* C8 witness: with a watermark, a secondary was acquired and rejected, and
\* the primary's lease is the one outstanding.
C8_Witness ==
    /\ LSNCall /\ Returned /\ secAcqOK /\ result = PrimaryLease
    /\ \A id \in Keys : leased[id] = 0

\* C9: the only error GetSecondary returns is the error of the final
\* acquire from the primary; whenever a secondary is returned or the primary
\* acquires, the error is nil, whatever failed on the secondaries before.
C9_OnlyPrimaryErrorSurfaces ==
    (GSCall /\ Returned) =>
        /\ result.err # NilErr =>
              /\ primaryAcq.st = "err"
              /\ result.err = primaryAcq.err
              /\ result.err.src = PrimaryID
        /\ primaryAcq.st = "ok" => result.err = NilErr
        /\ result.id \in Keys => result.err = NilErr

\* C9 witness: an acquire or a probe failed on a secondary, and the call
\* still returned a secondary without an error.
C9_Witness ==
    LSNCall /\ Returned /\ secErr /\ result.id \in Keys /\ result.err = NilErr

\* C10: once the ctx has been cancelled during a GetSecondary call, no
\* further polling pass and no further polling sleep is started.
C10_CancelAbortsPolling ==
    [][ (GSCall /\ lateCancel) =>
            /\ ~(pc = "loop" /\ pc' = "range")
            /\ ~(pc = "range" /\ pc' = "loop") ]_vars

\* C27: a GetSecondary call with a watermark returns: no polling pass starts
\* once the clock has reached the deadline, the clock is at least lsnPollStep
\* further when a pass has ended, at most maxLSNWait / lsnPollStep = 6 passes
\* are started, and the call, once entered, reaches its return.
C27_PollingTerminates ==
    /\ [](LSNCall => passes <= MaxPasses)
    /\ [][ /\ (pc = "loop" /\ pc' = "range") => (now < deadline /\ passes' = passes + 1)
           /\ (pc = "range" /\ pc' = "loop") => now' >= now + lsnPollStep
         ]_vars
    /\ (LSNCall /\ InCall) ~> Returned

\* C27 witness: a call has returned the primary after the sixth pass, every
\* secondary having failed or lagged in each.
C27_Witness ==
    /\ LSNCall /\ Returned
    /\ passes = MaxPasses
    /\ result = PrimaryLease
    /\ fallbackAt >= deadline

\* C21: once replicaHasLSNFn holds the stub, a GetSecondary call with a
\* watermark returns a secondary only if the stub accepts it: the decision is
\* the stub's answer, not the answer of the query on the replica.
C21_ProbeIsTheHook ==
    (replicaHasLSNFn = "stub" /\ LSNCall /\ Returned /\ result.id \in Keys) =>
        \E r \in stubProbe(result.id, minLSN) : ProbeAccepts(r)

(***************************************************************************)
(* One db handle under concurrent callers (pgds.go:170-215).  Each caller  *)
(* runs acquire, close or a Release of its lease, one statement at a time; *)
(* pgxpool builds the k-th pool of the handle as pool k.  Pool.Close waits *)
(* until every connection of the pool is back.                             *)
(***************************************************************************)

\* Variant: Lock returns whether or not another caller holds the mutex.
CanLockUnguarded(c) == TRUE

\* d.mu.Lock() returns to caller c once the mutex is free.
CanLock(c) == dMu = 0

\* Variant: a failed pgxpool.NewWithConfig leaves its half-built pool in d.pool.
InitOutcomesKeepPool ==
    IF ~dConnOK THEN {[err |-> "parse", pool |-> dPool, made |-> made]}
    ELSE IF made < MaxPools
         THEN {[err |-> "newpool", pool |-> made + 1, made |-> made + 1],
               [err |-> "nil", pool |-> made + 1, made |-> made + 1]}
         ELSE {[err |-> "newpool", pool |-> 0, made |-> made]}

\* The body of 'if d.pool == nil': the error returned and d.pool afterwards.
\* pgxpool.ParseConfig fails on a descriptor it does not accept and leaves
\* d.pool alone; 'd.pool, err = pgxpool.NewWithConfig(ctx, cfg)' stores the
\* new pool, or nil along with the error.
InitOutcomes ==
    IF ~dConnOK THEN {[err |-> "parse", pool |-> dPool, made |-> made]}
    ELSE {[err |-> "newpool", pool |-> 0, made |-> made]}
         \cup (IF made < MaxPools
               THEN {[err |-> "nil", pool |-> made + 1, made |-> made + 1]}
               ELSE {})

\* d.pool.Acquire(ctx): a nil d.pool is a nil dereference, a closed pool
\* refuses, and otherwise the pool hands out a connection or fails.
PoolAcquireOn(p) ==
    IF p = 0 THEN {[err |-> "panic", lease |-> 0]}
    ELSE IF closeCalls[p] > 0 THEN {[err |-> "closed", lease |-> 0]}
    ELSE {[err |-> "nil", lease |-> p], [err |-> "acquire", lease |-> 0]}

\* Variant: close leaves d.pool set.
AfterCloseKeeps(p) == p

\* 'd.pool = nil' after d.pool.Close()
AfterClose(p) == 0

\* Connections of pool p that callers hold.
LeasesOut(p) == Cardinality({c \in Callers : clease[c] = p})

\* What a step of a caller of d leaves alone.
dbFrame == <<vars, instVars, regVars, hookVars, traceVars, pgVars, concVars>>

\* Caller c calls d.acquire(ctx); it holds no lease of d.
BeginAcquire(c) ==
    /\ cpc[c] = "idle"
    /\ clease[c] = 0
    /\ cpc' = [cpc EXCEPT ![c] = "acquire.Lock"]
    /\ cres' = [cres EXCEPT ![c] = "none"]
    /\ late' = [late EXCEPT ![c] = closed]
    /\ UNCHANGED <<dbFrame, dbState, clease, closed>>

\* d.mu.Lock() and the test 'd.pool == nil'.
AcquireLock(c) ==
    /\ cpc[c] = "acquire.Lock"
    /\ CanLock(c)
    /\ dMu' = c
    /\ cpc' = [cpc EXCEPT ![c] = IF dPool = 0 THEN "acquire.init" ELSE "acquire.pool"]
    /\ UNCHANGED <<dbFrame, dPool, dConnOK, made, closeCalls, cres, clease,
                   closed, late>>

\* pgxpool.ParseConfig and pgxpool.NewWithConfig.
AcquireInit(c) ==
    /\ cpc[c] = "acquire.init"
    /\ \E o \in InitOutcomes :
          /\ dPool' = o.pool
          /\ made' = o.made
          /\ cres' = [cres EXCEPT ![c] = o.err]
          /\ cpc' = [cpc EXCEPT ![c] = IF o.err = "nil" THEN "acquire.pool"
                                       ELSE "acquire.return"]
    /\ UNCHANGED <<dbFrame, dMu, dConnOK, closeCalls, clease, closed, late>>

\* return d.pool.Acquire(ctx)
AcquirePool(c) ==
    /\ cpc[c] = "acquire.pool"
    /\ \E o \in PoolAcquireOn(dPool) :
          /\ cres' = [cres EXCEPT ![c] = o.err]
          /\ clease' = [clease EXCEPT ![c] = o.lease]
    /\ cpc' = [cpc EXCEPT ![c] = "acquire.return"]
    /\ UNCHANGED <<dbFrame, dbState, closed, late>>

\* The deferred d.mu.Unlock() of acquire.
AcquireReturn(c) ==
    /\ cpc[c] = "acquire.return"
    /\ dMu' = IF dMu = c THEN 0 ELSE dMu
    /\ cpc' = [cpc EXCEPT ![c] = "idle"]
    /\ UNCHANGED <<dbFrame, dPool, dConnOK, made, closeCalls, cres, clease,
                   closed, late>>

\* poolConn.Release(): caller c gives its connection back.
ReleaseConn(c) ==
    /\ cpc[c] = "idle"
    /\ clease[c] # 0
    /\ clease' = [clease EXCEPT ![c] = 0]
    /\ UNCHANGED <<dbFrame, dbState, cpc, cres, closed, late>>

\* Caller c calls d.close().
BeginClose(c) ==
    /\ cpc[c] = "idle"
    /\ cpc' = [cpc EXCEPT ![c] = "close.Lock"]
    /\ cres' = [cres EXCEPT ![c] = "none"]
    /\ UNCHANGED <<dbFrame, dbState, clease, closed, late>>

\* d.mu.Lock() of close.
CloseLock(c) ==
    /\ cpc[c] = "close.Lock"
    /\ CanLock(c)
    /\ dMu' = c
    /\ cpc' = [cpc EXCEPT ![c] = "close.pool"]
    /\ UNCHANGED <<dbFrame, dPool, dConnOK, made, closeCalls, cres, clease,
                   closed, late>>

\* if d.pool != nil { d.pool.Close(); d.pool = nil }
ClosePool(c) ==
    /\ cpc[c] = "close.pool"
    /\ IF dPool # 0
       THEN /\ LeasesOut(dPool) = 0
            /\ closeCalls' = [closeCalls EXCEPT ![dPool] = @ + 1]
            /\ dPool' = AfterClose(dPool)
       ELSE UNCHANGED <<dPool, closeCalls>>
    /\ cres' = [cres EXCEPT ![c] = "nil"]
    /\ cpc' = [cpc EXCEPT ![c] = "close.return"]
    /\ UNCHANGED <<dbFrame, dMu, dConnOK, made, clease, closed, late>>

\* return nil, and the deferred d.mu.Unlock() of close.
CloseReturn(c) ==
    /\ cpc[c] = "close.return"
    /\ dMu' = IF dMu = c THEN 0 ELSE dMu
    /\ cpc' = [cpc EXCEPT ![c] = "idle"]
    /\ closed' = TRUE
    /\ UNCHANGED <<dbFrame, dPool, dConnOK, made, closeCalls, cres, clease, late>>

DBInit ==
    /\ RouterInit(PrimaryOnly)
    /\ \E ok \in BOOLEAN : newDB(ok)
    /\ NoProviders
    /\ EmptyRegistry
    /\ HookInit
    /\ NotCounting
    /\ PgInit
    /\ NoThreads

DBNext ==
    \E c \in Callers :
        \/ BeginAcquire(c)
        \/ AcquireLock(c)
        \/ AcquireInit(c)
        \/ AcquirePool(c)
        \/ AcquireReturn(c)
        \/ ReleaseConn(c)
        \/ BeginClose(c)
        \/ CloseLock(c)
        \/ ClosePool(c)
        \/ CloseReturn(c)

DBSpec == DBInit /\ [][DBNext]_<<vars, sideVars>>

(* ---------------------- properties of the handle ----------------------- *)

\* Pools of d that were built and not closed.
LivePools == {k \in PoolIDs : k <= made /\ closeCalls[k] = 0}
NoCloseYet == \A k \in PoolIDs : closeCalls[k] = 0
\* Caller c is in the body of 'if d.pool == nil'; caller c built a pool in the
\* acquire it is in.
InInit(c) == cpc[c] = "acquire.init"
BuiltPool(c) == cpc[c] = "acquire.pool" /\ cres[c] = "nil"

\* C11: however concurrent first-time acquire calls on one handle interleave,
\* the pool is built at most once: at most one caller at a time is past the
\* test 'd.pool == nil' with the pool missing, at most one pool of the handle
\* is live (exactly one pool was ever built as long as no close ran), and
\* every caller that gets a connection gets it from that pool, the one d.pool
\* holds.
C11_PoolCreatedOnce ==
    /\ Cardinality({c \in Callers : InInit(c)}) <= 1
    /\ \A c \in Callers : InInit(c) => dPool = 0 /\ dMu = c
    /\ Cardinality(LivePools) <= 1
    /\ NoCloseYet => made <= 1
    /\ dPool # 0 => LivePools = {dPool}
    /\ \A c \in Callers : cpc[c] = "acquire.pool" => dPool # 0
    /\ \A c \in Callers : clease[c] # 0 => clease[c] = dPool

\* C11 witness: no close has run, one pool was built and every caller holds a
\* connection of it.
C11_Witness ==
    /\ NoCloseYet
    /\ made = 1
    /\ \A c \in Callers : clease[c] = 1 /\ ~late[c]

\* C12: a caller that found the pool of the handle built does not hold d.mu
\* while it is inside d.pool.Acquire, so another caller at the Lock of
\* acquire or close can go on.
C12_NoLockInPoolAcquire ==
    \A c \in Callers :
        (cpc[c] = "acquire.pool" /\ ~BuiltPool(c)) =>
            /\ dMu # c
            /\ \A o \in Callers \ {c} :
                  cpc[o] \in {"acquire.Lock", "close.Lock"} => CanLock(o)

\* C13: an acquire that begins after a close of the handle has returned
\* neither builds a pool nor hands out a connection.
C13_ClosedHandleStaysClosed ==
    \A c \in Callers : late[c] => clease[c] = 0 /\ ~BuiltPool(c)

\* C14: an acquire that ends with the error of the pool set-up (ParseConfig
\* or NewWithConfig) hands out nothing and leaves d.pool nil, so that the
\* next acquire runs the set-up again.
C14_InitFailureLeavesNil ==
    \A c \in Callers :
        (cpc[c] = "acquire.return" /\ cres[c] \in {"parse", "newpool"}) =>
            /\ dPool = 0
            /\ clease[c] = 0
            /\ LivePools = {}

\* C14 witness: with no close run, one caller's acquire ended with the error
\* of NewWithConfig and another caller holds a connection of the pool a later
\* set-up built.
C14_Witness ==
    /\ NoCloseYet
    /\ \E c, o \in Callers :
          /\ cpc[c] = "idle" /\ cres[c] = "newpool"
          /\ clease[o] = 1 /\ dPool = 1

\* C15: close is idempotent: no pool is closed twice, a close returns nil
\* and leaves d.pool nil, and a close that finds d.pool nil closes nothing.
C15_CloseIdempotent ==
    /\ \A k \in PoolIDs : closeCalls[k] <= 1
    /\ \A k \in PoolIDs : k > made => closeCalls[k] = 0
    /\ \A c \in Callers :
          cpc[c] = "close.return" => cres[c] = "nil" /\ dPool = 0

\* C15 witness: a close is returning after an earlier close has returned, the
\* one pool built having been closed once.
C15_Witness ==
    /\ closed
    /\ made = 1
    /\ closeCalls[1] = 1
    /\ \E c \in Callers : cpc[c] = "close.return"

(***************************************************************************)
(* The provider registries: v3 (src/v3/registry.go) maps a name to a       *)
(* factory, v1 (src/ds.go) maps a name to a provider.  A panic of Register *)
(* is recorded with the call; the process goes on when it is recovered.    *)
(***************************************************************************)

\* Names passed to Register and to NewProvider; the last is never registered.
FactoryNames == {ProviderID, "fake"}
V1Names == {ProviderID, "sqlite"}
LookupNames == FactoryNames \cup {"does-not-exist"}

\* Factories passed to Register: pgds.New, the factory of registry_test.go, nil;
\* and the v1 providers: the pder of pgds and of sqlite, nil.
FactoryValues == {"pgds.New", "fakeFactory", Nil}
V1Providers == {"pgds.pder", "sqlite.pder", Nil}

\* A 'cfg any' argument: its dynamic type, whether it is a nil pointer, and
\* the Config it points to.
NoConfig == [PrimaryConnStr |-> "", Secondaries |-> << >>]
InstConfigs ==
    {[PrimaryConnStr |-> pcs,
      Secondaries |-> [id \in {ReplicaNames[i] : i \in 1..n} |-> ConnStrOf(id)]] :
        pcs \in {ConnStrOf(PrimaryID), ""}, n \in 0..MaxInstSecondaries}
AnyCfgs ==
    {[type |-> "*pgds.Config", isNil |-> FALSE, str |-> "", cfg |-> c] : c \in InstConfigs}
    \cup {[type |-> "*pgds.Config", isNil |-> TRUE, str |-> "", cfg |-> NoConfig],
          [type |-> "nil", isNil |-> TRUE, str |-> "", cfg |-> NoConfig],
          [type |-> "string", isNil |-> FALSE, str |-> "ok", cfg |-> NoConfig],
          [type |-> "string", isNil |-> FALSE, str |-> "bad", cfg |-> NoConfig]}

\* What a factory call returns: a provider, an error, or a panic.
Outcome(kind, err) == [kind |-> kind, err |-> err]

\* pgds.New(cfg any): the type assertion, the nil pointer dereferenced by
\* c.PrimaryConnStr, and the check of the primary descriptor.
pgdsNew(a) ==
    IF a.type # "*pgds.Config"
    THEN Outcome("error", "pgds: config must be *pgds.Config")
    ELSE IF a.isNil THEN Outcome("panic", "nil pointer dereference")
    ELSE IF New(a.cfg).ok THEN Outcome("provider", Nil)
    ELSE Outcome("error", "pgds: PrimaryConnStr is required")

\* The factory of TestProviderRegistry.
fakeFactory(a) ==
    IF a.type = "string" /\ a.str = "ok"
    THEN Outcome("provider", Nil)
    ELSE Outcome("error", "bad cfg")

\* factory(cfg)
Invoke(f, a) == IF f = "pgds.New" THEN pgdsNew(a) ELSE fakeFactory(a)

\* reg with name bound to f.
Bind(reg, name, f) ==
    [n \in DOMAIN reg \cup {name} |-> IF n = name THEN f ELSE reg[n]]

\* Variant: a second registration replaces the first.
RegisterReplaces(reg, name, f) ==
    IF f = Nil
    THEN [panic |-> "ds: provider factory is nil", reg |-> reg]
    ELSE [panic |-> "", reg |-> Bind(reg, name, f)]

\* v3 Register(name, factory): the panic it raises ("" for none) and the
\* registry afterwards.
Register(reg, name, f) ==
    IF f = Nil
    THEN [panic |-> "ds: provider factory is nil", reg |-> reg]
    ELSE IF name \in DOMAIN reg
    THEN [panic |-> "ds: provider already registered: " \o name, reg |-> reg]
    ELSE [panic |-> "", reg |-> Bind(reg, name, f)]

\* v1 Register(name, provide)
RegisterV1(reg, name, pv) ==
    IF pv = Nil
    THEN [panic |-> "dataStorage: Register provide is nil", reg |-> reg]
    ELSE IF name \in DOMAIN reg
    THEN [panic |-> "dataStorage: Register called twice for provide " \o name,
          reg |-> reg]
    ELSE [panic |-> "", reg |-> Bind(reg, name, pv)]

\* Variant: an unknown name falls back to the factory of "pg".
NewProviderDefaults(reg, name, a) ==
    IF name \in DOMAIN reg
    THEN [by |-> reg[name], res |-> Invoke(reg[name], a)]
    ELSE IF ProviderID \in DOMAIN reg
    THEN [by |-> reg[ProviderID], res |-> Invoke(reg[ProviderID], a)]
    ELSE [by |-> Nil, res |-> Outcome("error", "ds: unknown provider")]

\* v3 NewProvider(name, cfg): the factory it invokes (Nil for none) and what
\* it returns.
NewProvider(reg, name, a) ==
    IF name \in DOMAIN reg
    THEN [by |-> reg[name], res |-> Invoke(reg[name], a)]
    ELSE [by |-> Nil, res |-> Outcome("error", "ds: unknown provider")]

\* What a step on the registries leaves alone.
regFrame == <<vars, dbVars, instVars, hookVars, traceVars, pgVars, concVars>>

\* ds.Register(name, f) of v3 is called.
CallRegister(name, f) ==
    /\ factories' = Register(factories, name, f).reg
    /\ rlast' = [op |-> "Register", name |-> name, value |-> f,
                 panic |-> Register(factories, name, f).panic,
                 before |-> factories]
    /\ UNCHANGED <<regFrame, provides>>

\* ds.Register(name, provide) of v1 is called.
CallRegisterV1(name, pv) ==
    /\ provides' = RegisterV1(provides, name, pv).reg
    /\ rlast' = [op |-> "RegisterV1", name |-> name, value |-> pv,
                 panic |-> RegisterV1(provides, name, pv).panic,
                 before |-> provides]
    /\ UNCHANGED <<regFrame, factories>>

\* ds.NewProvider(name, cfg) of v3 is called.
CallNewProvider(name, a) ==
    /\ rlast' = [op |-> "NewProvider", name |-> name, cfg |-> a,
                 by |-> NewProvider(factories, name, a).by,
                 res |-> NewProvider(factories, name, a).res,
                 before |-> factories]
    /\ UNCHANGED <<regFrame, factories, provides>>

RegInit ==
    /\ RouterInit(PrimaryOnly)
    /\ newDB(TRUE)
    /\ NoProviders
    /\ EmptyRegistry
    /\ HookInit
    /\ NotCounting
    /\ PgInit
    /\ NoThreads

RegNext ==
    \/ \E name \in FactoryNames, f \in FactoryValues : CallRegister(name, f)
    \/ \E name \in V1Names, pv \in V1Providers : CallRegisterV1(name, pv)
    \/ \E name \in LookupNames, a \in AnyCfgs : CallNewProvider(name, a)

RegSpec == RegInit /\ [][RegNext]_<<vars, sideVars>>

(* ---------------------- the registry under threads --------------------- *)

\* The cfg the threads pass to NewProvider.
ThreadCfg == [type |-> "string", isNil |-> FALSE, str |-> "ok", cfg |-> NoConfig]

\* Variant: Lock that waits for nobody.
LockableAlways(m) == TRUE

\* mu.Lock() returns when nobody holds mu; mu.RLock() when no writer does.
Lockable(m) == m.w = 0 /\ m.r = {}
RLockable(m) == m.w = 0

\* Another thread is in the middle of the map assignment of registry.go:27.
MidWrite(t) == \E u \in Threads \ {t} : th[u].pc = "inserting"

\* What a read of factories[name] by thread t yields: the binding, or, in a
\* data race with a map write, anything at all.
MapRead(t, name) ==
    IF MidWrite(t)
    THEN [exists : BOOLEAN, factory : FactoryValues]
    ELSE IF name \in DOMAIN factories
    THEN {[exists |-> TRUE, factory |-> factories[name]]}
    ELSE {[exists |-> FALSE, factory |-> Nil]}

\* Another thread is inside a call.
Overlaps(t) == \E u \in Threads \ {t} : th[u].pc \notin {"idle", "done"}

\* The number of insertions of name so far.
Insertions(name) == IF name \in DOMAIN ins THEN ins[name] ELSE 0

\* What a step of a thread leaves alone.
concFrame == <<vars, dbVars, instVars, hookVars, traceVars, pgVars, provides, rlast>>

\* Thread t calls Register(name, f): registry.go:18-20.
ThRegister(t, name, f) ==
    /\ th[t].pc = "idle"
    /\ th' = [th EXCEPT ![t] =
                IF f = Nil
                THEN [IdleThread EXCEPT !.pc = "done", !.op = "Register",
                                        !.name = name,
                                        !.panic = "ds: provider factory is nil",
                                        !.conc = Overlaps(t)]
                ELSE [IdleThread EXCEPT !.pc = "Lock", !.op = "Register",
                                        !.name = name, !.f = f,
                                        !.conc = Overlaps(t)]]
    /\ UNCHANGED <<concFrame, factories, mu, ins, race>>

\* mu.Lock() (registry.go:21)
ThLock(t) ==
    /\ th[t].pc = "Lock"
    /\ Lockable(mu)
    /\ mu' = [mu EXCEPT !.w = t]
    /\ th' = [th EXCEPT ![t].pc = "exists"]
    /\ UNCHANGED <<concFrame, factories, ins, race>>

\* if _, exists := factories[name]; exists { panic(...) } (registry.go:24-26)
ThExists(t) ==
    /\ th[t].pc = "exists"
    /\ \E rd \in MapRead(t, th[t].name) :
          th' = [th EXCEPT ![t].exists = rd.exists,
                           ![t].panic = IF rd.exists
                                        THEN "ds: provider already registered: "
                                             \o th[t].name
                                        ELSE "",
                           ![t].pc = IF rd.exists THEN "Unlock" ELSE "insert"]
    /\ race' = (race \/ MidWrite(t))
    /\ UNCHANGED <<concFrame, factories, mu, ins>>

\* factories[name] = factory (registry.go:27): the assignment begins ...
ThInsert(t) ==
    /\ th[t].pc = "insert"
    /\ th' = [th EXCEPT ![t].pc = "inserting"]
    /\ race' = (race \/ MidWrite(t))
    /\ UNCHANGED <<concFrame, factories, mu, ins>>

\* ... and ends.
ThInserted(t) ==
    /\ th[t].pc = "inserting"
    /\ factories' = Bind(factories, th[t].name, th[t].f)
    /\ ins' = Bind(ins, th[t].name,
                   IF Insertions(th[t].name) < 2
                   THEN Insertions(th[t].name) + 1 ELSE 2)
    /\ th' = [th EXCEPT ![t].pc = "Unlock"]
    /\ UNCHANGED <<concFrame, mu, race>>

\* The deferred mu.Unlock() (registry.go:22), on return and on panic alike.
ThUnlock(t) ==
    /\ th[t].pc = "Unlock"
    /\ mu' = [mu EXCEPT !.w = IF @ = t THEN 0 ELSE @]
    /\ th' = [th EXCEPT ![t].pc = "done"]
    /\ UNCHANGED <<concFrame, factories, ins, race>>

\* Thread t calls NewProvider(name, cfg).
ThNewProvider(t, name) ==
    /\ th[t].pc = "idle"
    /\ th' = [th EXCEPT ![t] =
                [IdleThread EXCEPT !.pc = "RLock", !.op = "NewProvider",
                                   !.name = name, !.conc = Overlaps(t)]]
    /\ UNCHANGED <<concFrame, factories, mu, ins, race>>

\* mu.RLock() (registry.go:38)
ThRLock(t) ==
    /\ th[t].pc = "RLock"
    /\ RLockable(mu)
    /\ mu' = [mu EXCEPT !.r = @ \cup {t}]
    /\ th' = [th EXCEPT ![t].pc = "lookup"]
    /\ UNCHANGED <<concFrame, factories, ins, race>>

\* factory, ok := factories[name] (registry.go:39)
ThLookup(t) ==
    /\ th[t].pc = "lookup"
    /\ \E rd \in MapRead(t, th[t].name) :
          th' = [th EXCEPT ![t].exists = rd.exists,
                           ![t].factory = rd.factory,
                           ![t].pc = "RUnlock"]
    /\ race' = (race \/ MidWrite(t))
    /\ UNCHANGED <<concFrame, factories, mu, ins>>

\* mu.RUnlock() (registry.go:40)
ThRUnlock(t) ==
    /\ th[t].pc = "RUnlock"
    /\ mu' = [mu EXCEPT !.r = @ \ {t}]
    /\ th' = [th EXCEPT ![t].pc = "factory"]
    /\ UNCHANGED <<concFrame, factories, ins, race>>

\* if !ok { return nil, fmt.Errorf(...) }; return factory(cfg)
\* (registry.go:42-45)
ThFactory(t) ==
    /\ th[t].pc = "factory"
    /\ th' = [th EXCEPT ![t].res =
                            IF ~th[t].exists
                            THEN Outcome("error", "ds: unknown provider")
                            ELSE IF th[t].factory = Nil
                            THEN Outcome("panic", "nil pointer dereference")
                            ELSE Invoke(th[t].factory, ThreadCfg),
                        ![t].pc = "done"]
    /\ UNCHANGED <<concFrame, factories, mu, ins, race>>

\* The caller of thread t goes on (having recovered, if the call panicked).
ThReturn(t) ==
    /\ th[t].pc = "done"
    /\ th' = [th EXCEPT ![t] = IdleThread]
    /\ UNCHANGED <<concFrame, factories, mu, ins, race>>

ConcInit == RegInit

ConcNext ==
    \/ \E t \in Threads, name \in FactoryNames, f \in FactoryValues :
          ThRegister(t, name, f)
    \/ \E t \in Threads : ThLock(t)
    \/ \E t \in Threads : ThExists(t)
    \/ \E t \in Threads : ThInsert(t)
    \/ \E t \in Threads : ThInserted(t)
    \/ \E t \in Threads : ThUnlock(t)
    \/ \E t \in Threads, name \in FactoryNames : ThNewProvider(t, name)
    \/ \E t \in Threads : ThRLock(t)
    \/ \E t \in Threads : ThLookup(t)
    \/ \E t \in Threads : ThRUnlock(t)
    \/ \E t \in Threads : ThFactory(t)
    \/ \E t \in Threads : ThReturn(t)

ConcSpec == ConcInit /\ [][ConcNext]_<<vars, sideVars>>

\* Thread t is between Lock and Unlock, or between RLock and RUnlock.
InWrite(t) == th[t].pc \in {"exists", "insert", "inserting", "Unlock"}
InRead(t) == th[t].pc \in {"lookup", "RUnlock"}

\* Thread t is back from Register(name, f), f not nil; from NewProvider(name).
BackFromRegister(t, name) ==
    th[t].pc = "done" /\ th[t].op = "Register" /\ th[t].name = name
    /\ th[t].f # Nil
LookedUp(t, name) ==
    th[t].pc \in {"RUnlock", "factory", "done"} /\ th[t].op = "NewProvider"
    /\ th[t].name = name

\* C30: Register and NewProvider do not race.  A writer of factories is alone
\* between Lock and Unlock, and no access to the map meets a write of another
\* thread; a name is inserted at most once, the Register that returns without
\* panic is the one whose factory the name is bound to, and the Register that
\* panics with "already registered" finds the name inserted; and NewProvider
\* sees a name either unbound (ok false) or bound to the factory it was
\* registered with.
C30_RegistryDoesNotRace ==
    /\ ~race
    /\ \A t \in Threads, u \in Threads :
          (t # u /\ InWrite(t)) => (~InWrite(u) /\ ~InRead(u))
    /\ \A name \in FactoryNames :
          /\ Insertions(name) <= 1
          /\ \A t \in Threads :
                /\ BackFromRegister(t, name) =>
                      /\ Insertions(name) = 1
                      /\ name \in DOMAIN factories
                      /\ \/ th[t].panic = "" /\ factories[name] = th[t].f
                         \/ th[t].panic = "ds: provider already registered: "
                                          \o name
                /\ LookedUp(t, name) =>
                      \/ ~th[t].exists /\ th[t].factory = Nil
                      \/ /\ th[t].exists
                         /\ th[t].factory # Nil
                         /\ name \in DOMAIN factories
                         /\ factories[name] = th[t].factory

\* Two threads are back from calls that overlapped: one from the Register of a
\* name that panicked because the other thread's Register had inserted it, the
\* other from a NewProvider of that name that found it.
C30_Witness ==
    \E name \in FactoryNames, t \in Threads, u \in Threads :
        /\ t # u
        /\ BackFromRegister(t, name)
        /\ th[t].conc
        /\ th[t].panic = "ds: provider already registered: " \o name
        /\ th[u].pc = "done" /\ LookedUp(u, name)
        /\ th[u].conc
        /\ th[u].exists
        /\ th[u].res = Invoke(factories[name], ThreadCfg)

(* --------------------- properties of the registries -------------------- *)

\* Every binding of registry reg is a binding of reg2.
Keeps(reg, reg2) ==
    \A n \in DOMAIN reg : n \in DOMAIN reg2 /\ reg2[n] = reg[n]

\* The call just made was a Register of v3 or v1; the registry it acts on.
Registered == rlast.op \in {"Register", "RegisterV1"}
RegistryOf(o) == IF o = "Register" THEN factories ELSE provides

\* C17: Register panics exactly when the name is already registered or the
\* factory (v1: the provider) is nil, and then leaves the registry as it
\* was; otherwise it adds the binding and nothing else.  No step removes or
\* replaces a binding, so the factory a name was first registered with is
\* the one NewProvider finds.
C17_RegisterLoudAndStable ==
    /\ [](Registered =>
            /\ (rlast.panic # "") =
                   (rlast.value = Nil \/ rlast.name \in DOMAIN rlast.before)
            /\ rlast.panic # "" => RegistryOf(rlast.op) = rlast.before
            /\ rlast.panic = "" =>
                   RegistryOf(rlast.op) = Bind(rlast.before, rlast.name, rlast.value))
    /\ [][Keeps(factories, factories') /\ Keeps(provides, provides')]_regVars

\* C17 witness: a Register of a name that was bound has just panicked, and the
\* name is still bound to another factory than the one passed.
C17_Witness ==
    /\ rlast.op = "Register"
    /\ rlast.panic # ""
    /\ rlast.value # Nil
    /\ rlast.name \in DOMAIN factories
    /\ factories[rlast.name] # rlast.value

\* C18: NewProvider leaves the registry alone; for a name that is not
\* registered it invokes no factory and returns the "unknown provider" error
\* and no provider; for a registered name it invokes the factory bound to
\* that name with the cfg given and returns what the factory returns.
C18_NewProviderLookup ==
    rlast.op = "NewProvider" =>
        /\ factories = rlast.before
        /\ IF rlast.name \in DOMAIN factories
           THEN /\ rlast.by = factories[rlast.name]
                /\ rlast.res = Invoke(factories[rlast.name], rlast.cfg)
           ELSE /\ rlast.by = Nil
                /\ rlast.res = Outcome("error", "ds: unknown provider")

\* C18 witness: with "pg" registered, NewProvider has just been called with a
\* name that is not registered.
C18_Witness ==
    /\ rlast.op = "NewProvider"
    /\ ProviderID \in DOMAIN factories
    /\ rlast.name \notin DOMAIN factories
    /\ rlast.res.kind = "error"

(***************************************************************************)
(* Provider instances: every ds.NewProvider("pg", cfg) that succeeds adds  *)
(* a Provider, whose handles newDB allocates; callers acquire from and     *)
(* release to the handles of a Provider, and close it.  The registry holds *)
(* what the init() of pgds registered.                                     *)
(***************************************************************************)

\* factories after 'ds.Register(ProviderID, New)' of pgds's init().
PgRegistry == Bind(<< >>, ProviderID, "pgds.New")

\* Variant: newDB connects the pool of the handle it builds.
DBRecConnected(connStr) == [connStr |-> connStr, pool |-> TRUE, leased |-> 0]

\* &db{connStr: connStr, onNotif: onNotif}
DBRec(connStr) == [connStr |-> connStr, pool |-> FALSE, leased |-> 0]

\* Variant: newDB hands out the handle it built earlier for the same descriptor.
HandleForShared(store, connStr) ==
    IF \E h \in 1..Len(store) : store[h].connStr = connStr
    THEN CHOOSE h \in 1..Len(store) : store[h].connStr = connStr
    ELSE Len(store) + 1

\* newDB allocates a new db: the place it takes among the handles allocated.
HandleFor(store, connStr) == Len(store) + 1

Put(store, h, connStr) ==
    IF h > Len(store) THEN Append(store, DBRec(connStr)) ELSE store

\* The Provider New builds from Config c, and the handles allocated after it:
\* the primary's, then one for each entry of c.Secondaries.
Build(store, c) ==
    LET hp == HandleFor(store, c.PrimaryConnStr)
        n == Cardinality(DOMAIN c.Secondaries)
        F[k \in 0..n] ==
            IF k = 0
            THEN [store |-> Put(store, hp, c.PrimaryConnStr), sec |-> << >>]
            ELSE LET id == ReplicaNames[k]
                     h == HandleFor(F[k - 1].store, c.Secondaries[id])
                 IN [store |-> Put(F[k - 1].store, h, c.Secondaries[id]),
                     sec |-> Bind(F[k - 1].sec, id, h)]
    IN [prov |-> [primary |-> hp, secondaries |-> F[n].sec], store |-> F[n].store]

ProvIDs == 1..Len(provs)
\* The handles of Provider i, and the one it keeps for ServerID id.
HandlesOfProv(i) ==
    {provs[i].primary} \cup {provs[i].secondaries[id] : id \in DOMAIN provs[i].secondaries}
ServerIDsOf(i) == {PrimaryID} \cup DOMAIN provs[i].secondaries
HandleOf(i, id) == IF id = PrimaryID THEN provs[i].primary ELSE provs[i].secondaries[id]

\* The orders in which Close calls close: the primary first, then the range
\* over p.secondaries, in any order.
CloseOrders(i) ==
    LET S == DOMAIN provs[i].secondaries
        n == Cardinality(S)
        Perms == {f \in [1..n -> S] : \A x, y \in 1..n : f[x] = f[y] => x = y}
    IN {[k \in 1..(n + 1) |-> IF k = 1 THEN provs[i].primary
                               ELSE provs[i].secondaries[f[k - 1]]] : f \in Perms}

\* Variant: Close returns at the first close that fails.
CloseInvokedAbort(order, errs) ==
    {order[k] : k \in {x \in 1..Len(order) : \A j \in 1..(x - 1) : order[j] \notin errs}}

\* Provider.Close: the handles close() is called on, when the closes of the
\* handles in errs return an error; the errors are dropped ('_ =').
CloseInvoked(order, errs) == {order[k] : k \in 1..Len(order)}

\* Variant: Close drops the entries of p.secondaries.
ClosedProviderEmptied(p) == [p EXCEPT !.secondaries = << >>]

\* Provider.Close: the fields of the Provider after it; Close assigns neither
\* p.primary nor p.secondaries.
ClosedProvider(p) == p

\* What a step on the Providers leaves alone.
instFrame == <<vars, dbVars, regVars, hookVars, traceVars, pgVars, concVars>>

\* ds.NewProvider("pg", a) is called.
InstNewProvider(a) ==
    LET r == NewProvider(factories, ProviderID, a)
        b == Build(dbs, a.cfg)
    IN IF r.res.kind = "provider"
       THEN /\ Len(provs) < MaxProviders
            /\ Len(b.store) <= MaxHandles
            /\ provs' = Append(provs, b.prov)
            /\ dbs' = b.store
            /\ plast' = [op |-> "NewProvider", cfg |-> a, res |-> r.res,
                         prov |-> Len(provs) + 1]
            /\ UNCHANGED instFrame
       ELSE /\ plast' = [op |-> "NewProvider", cfg |-> a, res |-> r.res, prov |-> 0]
            /\ UNCHANGED <<instFrame, provs, dbs>>

\* db.acquire on the handle Provider i keeps for id, as GetPrimary and
\* GetSecondary call it: the pool is set up if missing, and a connection is
\* handed out unless the set-up or the pool fails.
InstAcquire(i, id) ==
    /\ i \in ProvIDs
    /\ id \in ServerIDsOf(i)
    /\ dbs[HandleOf(i, id)].leased < MaxLeases
    /\ \E o \in {[pool |-> TRUE, got |-> 1], [pool |-> TRUE, got |-> 0]}
                \cup (IF dbs[HandleOf(i, id)].pool THEN {}
                      ELSE {[pool |-> FALSE, got |-> 0]}) :
          dbs' = [dbs EXCEPT ![HandleOf(i, id)] =
                      [@ EXCEPT !.pool = o.pool, !.leased = @ + o.got]]
    /\ plast' = NoCall
    /\ UNCHANGED <<instFrame, provs>>

\* p.GetPrimary(ctx) on Provider i: p.primary.acquire and nothing else; the
\* ServerID it returns is PrimaryID, or "" with the error of the acquire.
InstGetPrimary(i) ==
    /\ i \in ProvIDs
    /\ dbs[provs[i].primary].leased < MaxLeases
    /\ \E o \in {[pool |-> TRUE, got |-> 1], [pool |-> TRUE, got |-> 0]}
                \cup (IF dbs[provs[i].primary].pool THEN {}
                      ELSE {[pool |-> FALSE, got |-> 0]}) :
          /\ dbs' = [dbs EXCEPT ![provs[i].primary] =
                         [@ EXCEPT !.pool = o.pool, !.leased = @ + o.got]]
          /\ plast' = [op |-> "GetPrimary", prov |-> i,
                       id |-> IF o.got = 1 THEN PrimaryID ELSE ""]
    /\ UNCHANGED <<instFrame, provs>>

\* Provider.Release of a connection of the handle Provider i keeps for id.
InstRelease(i, id) ==
    /\ i \in ProvIDs
    /\ id \in ServerIDsOf(i)
    /\ dbs[HandleOf(i, id)].leased > 0
    /\ dbs' = [dbs EXCEPT ![HandleOf(i, id)] = [@ EXCEPT !.leased = @ - 1]]
    /\ plast' = NoCall
    /\ UNCHANGED <<instFrame, provs>>

\* Provider.Close on Provider i, every connection of its pools being back;
\* a close that returns nil has closed the pool of its handle.
InstClose(i) ==
    /\ i \in ProvIDs
    /\ \A h \in HandlesOfProv(i) : dbs[h].leased = 0
    /\ \E order \in CloseOrders(i), errs \in SUBSET HandlesOfProv(i) :
          /\ dbs' = [h \in 1..Len(dbs) |->
                        IF h \in CloseInvoked(order, errs) \ errs
                        THEN [dbs[h] EXCEPT !.pool = FALSE]
                        ELSE dbs[h]]
          /\ plast' = [op |-> "Close", prov |-> i, errs |-> errs, ret |-> Nil,
                       invoked |-> CloseInvoked(order, errs)]
    /\ provs' = [provs EXCEPT ![i] = ClosedProvider(@)]
    /\ UNCHANGED instFrame

\* The ways GetSecondary(ctx, "") on Provider i can go: the range over
\* p.secondaries visits the keys of failed, whose acquires fail, and then the
\* key id, whose acquire succeeds and ends the call; once every key has failed
\* (or with no key at all) the call is GetPrimary, which returns the primary
\* or, its acquire failing, no ServerID.
AnyOutcomes(i) ==
    LET S == DOMAIN provs[i].secondaries
    IN {[failed |-> f, id |-> w] : f \in SUBSET S, w \in S} \cup
       {[failed |-> S, id |-> w] : w \in {PrimaryID, ""}}

\* The leases out of each handle of Provider i, by ServerID.
InFlight(i) == [id \in ServerIDsOf(i) |-> dbs[HandleOf(i, id)].leased]

\* p.GetSecondary(ctx, "") on Provider i.  An acquire that fails may have set
\* up the pool of its handle (built) before it failed.
InstGetSecondary(i) ==
    /\ i \in ProvIDs
    /\ \E o \in AnyOutcomes(i) :
          LET won == IF o.id = "" THEN 0 ELSE HandleOf(i, o.id)
              lost == {HandleOf(i, id) : id \in o.failed} \cup
                      (IF o.id = "" THEN {provs[i].primary} ELSE {})
          IN /\ o.id \notin o.failed
             /\ won # 0 => dbs[won].leased < MaxLeases
             /\ \E built \in SUBSET lost :
                   dbs' = [h \in 1..Len(dbs) |->
                              IF h = won
                              THEN [dbs[h] EXCEPT !.pool = TRUE, !.leased = @ + 1]
                              ELSE IF h \in built
                              THEN [dbs[h] EXCEPT !.pool = TRUE]
                              ELSE dbs[h]]
             /\ plast' = [op |-> "GetSecondary", prov |-> i, id |-> o.id,
                          failed |-> o.failed, before |-> InFlight(i)]
    /\ UNCHANGED <<instFrame, provs>>

InstInit ==
    /\ RouterInit(PrimaryOnly)
    /\ newDB(TRUE)
    /\ NoProviders
    /\ factories = PgRegistry
    /\ provides = << >>
    /\ rlast = NoCall
    /\ HookInit
    /\ NotCounting
    /\ PgInit
    /\ NoThreads

InstServerIDs == {PrimaryID} \cup {ReplicaNames[k] : k \in 1..MaxInstSecondaries}

InstNext ==
    \/ \E a \in AnyCfgs : InstNewProvider(a)
    \/ \E i \in 1..MaxProviders, id \in InstServerIDs : InstAcquire(i, id)
    \/ \E i \in 1..MaxProviders, id \in InstServerIDs : InstRelease(i, id)
    \/ \E i \in 1..MaxProviders : InstGetPrimary(i)
    \/ \E i \in 1..MaxProviders : InstGetSecondary(i)
    \/ \E i \in 1..MaxProviders : InstClose(i)

InstSpec == InstInit /\ [][InstNext]_<<vars, sideVars>>

(* ------------------ properties of the provider instances --------------- *)

\* C16: a Close of a Provider calls close on its primary handle and on every
\* one of its secondary handles, whichever of those closes return an error,
\* and returns nil; every handle whose close returned nil has no pool left.
C16_CloseReachesAll ==
    plast.op = "Close" =>
        /\ plast.invoked = HandlesOfProv(plast.prov)
        /\ Cardinality(plast.invoked) = Cardinality(DOMAIN provs[plast.prov].secondaries) + 1
        /\ plast.ret = Nil
        /\ \A h \in HandlesOfProv(plast.prov) \ plast.errs : ~dbs[h].pool

\* C16 witness: a Close of a Provider with a secondary has just returned, the
\* close of the primary, called first, having failed.
C16_Witness ==
    /\ plast.op = "Close"
    /\ provs[plast.prov].primary \in plast.errs
    /\ DOMAIN provs[plast.prov].secondaries # {}
    /\ plast.invoked \ plast.errs # {}

\* No handle is kept by two Providers, nor twice by one.
OwnHandles ==
    /\ \A i, j \in ProvIDs : i # j => HandlesOfProv(i) \cap HandlesOfProv(j) = {}
    /\ \A i \in ProvIDs :
          /\ HandlesOfProv(i) \subseteq 1..Len(dbs)
          /\ Cardinality(HandlesOfProv(i)) =
                 Cardinality(DOMAIN provs[i].secondaries) + 1

\* The step changes a handle of Provider i.
Touches(i) == \E h \in HandlesOfProv(i) : dbs'[h] # dbs[h]

\* C19: every Provider NewProvider("pg", cfg) returns has handles, and so
\* pools, of its own; a step changes the handles of one Provider at most
\* (an acquire, a release or a close on one Provider changes nothing in
\* another), and a new Provider leaves those that exist as they are.
C19_FreshInstances ==
    /\ []OwnHandles
    /\ [][ /\ Cardinality({i \in ProvIDs : Touches(i)}) <= 1
           /\ \A i \in ProvIDs : provs'[i] = provs[i]
           /\ Len(provs') > Len(provs) => \A h \in 1..Len(dbs) : dbs'[h] = dbs[h]
         ]_instVars

\* C19 witness: two Providers built from the same primary descriptor; the
\* primary of the first has a pool and a lease out, that of the second has
\* no pool.
C19_Witness ==
    /\ Len(provs) >= 2
    /\ dbs[provs[1].primary].connStr = dbs[provs[2].primary].connStr
    /\ dbs[provs[1].primary].pool
    /\ dbs[provs[1].primary].leased = 1
    /\ ~dbs[provs[2].primary].pool

\* C22: GetSecondary with an empty watermark returns the least busy
\* secondary: no secondary of the Provider had fewer leases out, at the entry
\* of the call, than the one returned.
C22_LeastBusy ==
    (plast.op = "GetSecondary" /\ plast.id \in DOMAIN provs[plast.prov].secondaries) =>
        \A id \in DOMAIN provs[plast.prov].secondaries :
            plast.before[plast.id] <= plast.before[id]

\* C23: the topology of a Provider is fixed at construction: no step (an
\* acquire of GetPrimary or GetSecondary, a Release, a Close, another
\* NewProvider) replaces its primary handle, adds, removes or re-keys an entry
\* of its secondary map, or changes the descriptor a handle stands for.
C23_TopologyImmutable ==
    [][ /\ \A i \in ProvIDs :
              /\ i \in 1..Len(provs')
              /\ provs'[i].primary = provs[i].primary
              /\ DOMAIN provs'[i].secondaries = DOMAIN provs[i].secondaries
              /\ \A id \in DOMAIN provs[i].secondaries :
                    provs'[i].secondaries[id] = provs[i].secondaries[id]
        /\ \A h \in 1..Len(dbs) :
              h \in 1..Len(dbs') /\ dbs'[h].connStr = dbs[h].connStr
      ]_instVars

\* C23 witness: a Provider with two secondaries has been closed, every close
\* returning nil, and still has both.
C23_Witness ==
    /\ plast.op = "Close"
    /\ plast.errs = {}
    /\ Cardinality(DOMAIN provs[plast.prov].secondaries) = 2
    /\ Cardinality(plast.invoked) = 3

\* The handles of Provider i other than h keep their pool and their leases in
\* this step.
OthersUntouched(i, h) ==
    \A g \in HandlesOfProv(i) \ {h} : dbs'[g] = dbs[g]

\* C31: pools are created lazily, and only for the handle that is acquired
\* from.  The handles of the Provider NewProvider has just returned have no
\* pool; a GetPrimary changes no handle but the primary's; and a
\* GetSecondary(ctx, "") that returns a secondary leaves the primary's handle,
\* its pool included, as it was.
C31_LazyPools ==
    /\ [](plast.op = "NewProvider" /\ plast.prov # 0 =>
             \A h \in HandlesOfProv(plast.prov) : ~dbs[h].pool)
    /\ [][ /\ plast'.op = "GetPrimary" =>
                 OthersUntouched(plast'.prov, provs[plast'.prov].primary)
           /\ (plast'.op = "GetSecondary" /\ plast'.id \notin {PrimaryID, ""}) =>
                 /\ dbs'[provs[plast'.prov].primary] = dbs[provs[plast'.prov].primary]
                 /\ \A id \in DOMAIN provs[plast'.prov].secondaries :
                       id \notin plast'.failed \cup {plast'.id} =>
                          dbs'[HandleOf(plast'.prov, id)] = dbs[HandleOf(plast'.prov, id)]
         ]_instVars

\* GetSecondary(ctx, "") has returned a secondary after the acquire of another
\* one failed, and the primary of that Provider, which has a secondary more,
\* still has no pool, while the secondary returned has one.
C31_Witness ==
    /\ plast.op = "GetSecondary"
    /\ plast.id \notin {PrimaryID, ""}
    /\ plast.failed # {}
    /\ ~dbs[provs[plast.prov].primary].pool
    /\ dbs[HandleOf(plast.prov, plast.id)].pool
    /\ dbs[HandleOf(plast.prov, plast.id)].leased > 0

\* The cfg of the call just made is no *pgds.Config, or is one whose primary
\* descriptor is missing.
Refusable(a) ==
    \/ a.type # "*pgds.Config"
    \/ ~a.isNil /\ a.cfg.PrimaryConnStr = ""

\* C20: New answers a cfg of another type, and a Config with no primary
\* descriptor, with an error and no Provider; the Provider of a New that
\* succeeds has a primary handle, for the primary descriptor of the Config,
\* and one secondary handle for each ServerID of the Config, none else.
C20_NewValidates ==
    plast.op = "NewProvider" =>
        /\ Refusable(plast.cfg) => plast.res.kind = "error"
        /\ plast.res.kind # "provider" => plast.prov = 0
        /\ plast.res.kind = "provider" =>
              /\ plast.prov = Len(provs)
              /\ plast.cfg.cfg.PrimaryConnStr # ""
              /\ provs[plast.prov].primary \in 1..Len(dbs)
              /\ dbs[provs[plast.prov].primary].connStr = plast.cfg.cfg.PrimaryConnStr
              /\ DOMAIN provs[plast.prov].secondaries = DOMAIN plast.cfg.cfg.Secondaries
              /\ \A id \in DOMAIN provs[plast.prov].secondaries :
                    /\ provs[plast.prov].secondaries[id] \in 1..Len(dbs)
                    /\ dbs[provs[plast.prov].secondaries[id]].connStr =
                           plast.cfg.cfg.Secondaries[id]
              /\ Cardinality(HandlesOfProv(plast.prov)) =
                     Cardinality(DOMAIN plast.cfg.cfg.Secondaries) + 1

\* C20 witness: after a Provider was built, New has just refused a Config
\* that names a secondary and no primary.
C20_Witness ==
    /\ plast.op = "NewProvider"
    /\ Len(provs) >= 1
    /\ plast.cfg.type = "*pgds.Config"
    /\ ~plast.cfg.isNil
    /\ plast.cfg.cfg.PrimaryConnStr = ""
    /\ DOMAIN plast.cfg.cfg.Secondaries # {}
    /\ plast.res.kind = "error"

(***************************************************************************)
(* The ref-counting PgProvider of v1 (src/pgds/pgds.go) and v2: the        *)
(* single instance pder, which NewProvider initialises again at every call *)
(* with parameters, and one caller that issues GetPrimary, GetSecondary    *)
(* and Release calls one after another.  A method called through a nil     *)
(* pointer that reads a field of it panics and ends the call.              *)
(***************************************************************************)

\* &Db{connStr: connStr, onNotification: onDbNotification}
NewDb(connStr) == [connStr |-> connStr, ref |-> 0, Pool |-> FALSE]

\* The provParams of a NewProvider call: how many there are, whether the first
\* is a string, what the second is, and the dynamic type of the third (nil,
\* map[string]string with the map, or another type).
SecondariesParams ==
    {[type |-> "nil", m |-> << >>], [type |-> "other", m |-> << >>]} \cup
    {[type |-> "map[string]string",
      m |-> [id \in {ReplicaNames[i] : i \in 1..n} |-> ConnStrOf(id)]] :
        n \in 0..MaxPgSecondaries}
PgParams ==
    {[len |-> n, primaryIsString |-> TRUE, primaryConnStr |-> ConnStrOf(PRIMARY_ID),
      onDbNotification |-> "nil", secondaries |-> [type |-> "nil", m |-> << >>]] :
        n \in {0, 2}} \cup
    {[len |-> 3, primaryIsString |-> b, primaryConnStr |-> ConnStrOf(PRIMARY_ID),
      onDbNotification |-> f, secondaries |-> sp] :
        b \in BOOLEAN, f \in {"nil", "other"}, sp \in SecondariesParams}

\* InitProvider(provParams) on provider p: the error ("" for nil) and the
\* fields of p afterwards.  p.Secondaries is assigned only when the third
\* parameter is a map[string]string.
InitProvider(p, a) ==
    IF a.len < 3
    THEN [err |-> "InitProvider parameters", p |-> p]
    ELSE IF ~a.primaryIsString
    THEN [err |-> "primaryConnStr must be of type string", p |-> p]
    ELSE IF a.onDbNotification = "other"
    THEN [err |-> "onDbNotification must be of type OnDbNotificationProto", p |-> p]
    ELSE [err |-> "",
          p |-> [Primary |-> [nil |-> FALSE, db |-> NewDb(a.primaryConnStr)],
                 Secondaries |->
                     IF a.secondaries.type = "map[string]string"
                     THEN [nil |-> FALSE,
                           m |-> [id \in DOMAIN a.secondaries.m |->
                                      NewDb(a.secondaries.m[id])]]
                     ELSE p.Secondaries]]

\* d.addRef(): the Db afterwards and the error.  While d.Pool is nil Connect
\* is called first, and its error ends addRef before the counter moves.
addRef(d, name) ==
    {[db |-> [d EXCEPT !.Pool = TRUE, !.ref = @ + 1], err |-> NilErr]} \cup
    (IF d.Pool THEN {} ELSE {[db |-> d, err |-> Err("connect", name)]})

\* Variant: the counter is decremented whatever its value.
releaseUnguarded(d) == [d EXCEPT !.ref = @ - 1]

\* d.release(): if d.ref > 0 { d.ref-- }
release(d) == [d EXCEPT !.ref = IF @ > 0 THEN @ - 1 ELSE @]

\* d.GetRefCount()
GetRefCount(d) == d.ref

\* GetPrimary(): the primary Db afterwards and the (conn, ServerID, error)
\* returned; conn is the Db the connection belongs to.  After an addRef that
\* succeeded the result of Pool.Acquire is returned under PRIMARY_ID, error
\* included.
GetPrimary(d) ==
    UNION {IF a.err # NilErr
           THEN {[db |-> a.db, conn |-> NilConn, id |-> "", err |-> a.err]}
           ELSE {[db |-> a.db, conn |-> PRIMARY_ID, id |-> PRIMARY_ID, err |-> NilErr],
                 [db |-> a.db, conn |-> NilConn, id |-> PRIMARY_ID,
                  err |-> Err("acquire", PRIMARY_ID)]} : a \in addRef(d, PRIMARY_ID)}

\* Variant: any secondary not excluded is a candidate.
minRefAny(m, excluded) == DOMAIN m \ excluded

\* The min_id the scan of srv_loop can end with: a secondary that is not
\* excluded and whose GetRefCount() no other such secondary is below (among
\* equals the order of the map range decides).
minRef(m, excluded) ==
    {id \in DOMAIN m \ excluded :
        \A o \in DOMAIN m \ excluded : GetRefCount(m[id]) <= GetRefCount(m[o])}

\* min_db.addRef() and min_db.Pool.Acquire() on the candidate: the Db
\* afterwards and whether a connection was obtained.
tryCandidate(d, id) ==
    UNION {IF a.err # NilErr
           THEN {[db |-> a.db, conn |-> NilConn, id |-> "", err |-> a.err]}
           ELSE {[db |-> a.db, conn |-> id, id |-> id, err |-> NilErr],
                 [db |-> a.db, conn |-> NilConn, id |-> "",
                  err |-> Err("acquire", id)]} : a \in addRef(d, id)}

\* The counter part of Release(poolConn, id).
releaseByID(p, id) ==
    IF id = PRIMARY_ID
    THEN [p EXCEPT !.Primary.db = release(@)]
    ELSE IF ~p.Secondaries.nil /\ id \in DOMAIN p.Secondaries.m
    THEN [p EXCEPT !.Secondaries.m[id] = release(@)]
    ELSE p

\* The ref count Release(poolConn, id) finds, -1 when id names no Db.
refOf(p, id) ==
    IF id = PRIMARY_ID THEN p.Primary.db.ref
    ELSE IF ~p.Secondaries.nil /\ id \in DOMAIN p.Secondaries.m
    THEN p.Secondaries.m[id].ref
    ELSE -1

\* The Db's of the provider, by name.
PgDbsOf(p) ==
    (IF p.Primary.nil THEN {} ELSE {PRIMARY_ID}) \cup
    (IF p.Secondaries.nil THEN {} ELSE DOMAIN p.Secondaries.m)
PgDb(p, d) == IF d = PRIMARY_ID THEN p.Primary.db ELSE p.Secondaries.m[d]

\* Connections of Db d the caller holds.
HeldOf(d) == Held([t \in PgTags |-> conns[<<d, t>>]])

pgFrame == <<vars, dbVars, instVars, regVars, hookVars, traceVars, concVars>>

\* What was observed of the GetSecondary call that ended last is forgotten.
PgForget ==
    /\ srvLsn' = ""
    /\ tried' = << >>
    /\ refAtEntry' = << >>

\* ds.NewProvider("pg", provParams...) of v1, the caller holding no
\* connection: the registered pder, initialised again when parameters are given.
PgNewProvider(a) ==
    /\ ppc = "idle"
    /\ Held(conns) = 0
    /\ ProviderID \in DOMAIN provides
    /\ LET r == IF a.len > 0 THEN InitProvider(pder, a) ELSE [err |-> "", p |-> pder]
       IN /\ pder' = r.p
          /\ pres' = [op |-> "NewProvider", done |-> TRUE, conn |-> NilConn, id |-> "",
                      err |-> IF r.err = "" THEN NilErr ELSE Err(r.err, ""),
                      panic |-> FALSE]
          /\ initNil' = IF a.len > 0 /\ r.err = ""
                        THEN a.secondaries.type = "nil"
                        ELSE initNil
    /\ PgForget
    /\ UNCHANGED <<pgFrame, conns, ppc, excluded_ids, lsnTodo, pool_conn, proper>>

\* The ref counts of the provider, summed.
RefsOf(p) == Held([d \in PgDbsOf(p) |-> PgDb(p, d).ref])

\* A call may begin: the provider is initialised, and the bounds of the model
\* leave room for one more connection and for one more count.
PgReady ==
    /\ ppc = "idle"
    /\ ~pder.Primary.nil
    /\ Held(conns) < MaxConns
    /\ RefsOf(pder) < MaxConns

PgBegin(opName) == [op |-> opName, done |-> FALSE, conn |-> NilConn, id |-> "",
                    err |-> NilErr, panic |-> FALSE]

\* p.GetPrimary() is called.
PgCallGetPrimary ==
    /\ PgReady
    /\ ppc' = "primary"
    /\ srvLsn' = ""
    /\ tried' = << >>
    /\ refAtEntry' = << >>
    /\ pres' = PgBegin("GetPrimary")
    /\ UNCHANGED <<pgFrame, pgState, excluded_ids, lsnTodo, pool_conn, proper, initNil>>

\* p.GetSecondary(lsn) is called and takes its branch: no secondaries, the
\* least-busy loop, or the range of the LSN branch.
PgCallGetSecondary(lsn) ==
    /\ PgReady
    /\ srvLsn' = lsn
    /\ ppc' = IF pder.Secondaries.nil THEN "primary"
              ELSE IF lsn = "" THEN "srv_loop" ELSE "lsn"
    /\ excluded_ids' = {}
    /\ lsnTodo' = IF ~pder.Secondaries.nil /\ lsn # ""
                  THEN DOMAIN pder.Secondaries.m ELSE {}
    /\ pool_conn' = NilConn
    /\ tried' = << >>
    /\ refAtEntry' = [id \in DOMAIN pder.Secondaries.m |->
                         GetRefCount(pder.Secondaries.m[id])]
    /\ pres' = PgBegin("GetSecondary")
    /\ UNCHANGED <<pgFrame, pgState, proper, initNil>>

\* The call returns o: the caller holds the connection, if it was given one.
PgReturn(o) ==
    /\ ppc' = "idle"
    /\ pres' = [op |-> pres.op, done |-> TRUE, conn |-> o.conn, id |-> o.id,
                err |-> o.err, panic |-> FALSE]
    /\ conns' = IF o.conn = NilConn THEN conns
                ELSE [conns EXCEPT ![<<o.conn, o.id>>] = @ + 1]

\* The call ends in a panic (nil pointer dereference).
PgPanic ==
    /\ ppc' = "idle"
    /\ pres' = [op |-> pres.op, done |-> TRUE, conn |-> NilConn, id |-> "",
                err |-> NilErr, panic |-> TRUE]
    /\ UNCHANGED conns

\* GetPrimary, called by the caller or by GetSecondary.
PgPrimaryStep ==
    /\ ppc = "primary"
    /\ \E o \in GetPrimary(pder.Primary.db) :
          /\ pder' = [pder EXCEPT !.Primary.db = o.db]
          /\ PgReturn(o)
    /\ UNCHANGED <<pgFrame, srvLsn, excluded_ids, lsnTodo, pool_conn, tried,
                   refAtEntry, proper, initNil>>

\* Variant: a candidate that failed stays among the candidates.
excludeNone(excluded, min_id) == excluded

\* excluded_ids[min_id] = true, on a map made if it was nil (pgds.go:159-162)
exclude(excluded, min_id) == excluded \cup {min_id}

\* One round of srv_loop: pick min_id; with none left go on to GetPrimary;
\* return its connection, or exclude it and go round again.  The locals of
\* the call are dropped where it leaves the loop.
PgSrvLoop ==
    /\ ppc = "srv_loop"
    /\ IF minRef(pder.Secondaries.m, excluded_ids) = {}
       THEN /\ ppc' = "primary"
            /\ excluded_ids' = {}
            /\ UNCHANGED <<pgState, tried, pres>>
       ELSE \E min_id \in minRef(pder.Secondaries.m, excluded_ids) :
            \E o \in tryCandidate(pder.Secondaries.m[min_id], min_id) :
                /\ pder' = [pder EXCEPT !.Secondaries.m[min_id] = o.db]
                /\ tried' = Append(tried, min_id)
                /\ IF o.conn # NilConn
                   THEN PgReturn(o) /\ excluded_ids' = {}
                   ELSE /\ excluded_ids' = exclude(excluded_ids, min_id)
                        /\ UNCHANGED <<ppc, pres, conns>>
    /\ UNCHANGED <<pgFrame, srvLsn, lsnTodo, pool_conn, refAtEntry, proper, initNil>>

\* One secondary of the range of the LSN branch.  sec.Pool.Acquire panics on
\* a nil Pool; 'if err == nil { continue }' goes on to the next secondary
\* with the connection just acquired left in pool_conn; after an Acquire that
\* failed pool_conn is nil and pool_conn.Conn() panics.  The check of the
\* server's position lies behind that call and is never reached.
PgLsnStep(id) ==
    /\ ppc = "lsn"
    /\ id \in lsnTodo
    /\ IF ~pder.Secondaries.m[id].Pool
       THEN PgPanic /\ pool_conn' = NilConn /\ lsnTodo' = {}
       ELSE \/ /\ pool_conn' = id
               /\ lsnTodo' = lsnTodo \ {id}
               /\ UNCHANGED <<ppc, pres, conns>>
            \/ /\ pool_conn' = NilConn
               /\ PgPanic
               /\ lsnTodo' = {}
    /\ UNCHANGED <<pgFrame, pder, srvLsn, excluded_ids, tried, refAtEntry, proper,
                   initNil>>

\* After the range: GetPrimary when pool_conn is nil, else 'return pool_conn,
\* srv_id, err' with srv_id still empty and the err of the last Acquire.
PgLsnEnd ==
    /\ ppc = "lsn"
    /\ lsnTodo = {}
    /\ IF pool_conn = NilConn
       THEN /\ ppc' = "primary"
            /\ UNCHANGED <<pres, conns>>
       ELSE PgReturn([conn |-> pool_conn, id |-> "", err |-> NilErr])
    /\ pool_conn' = NilConn
    /\ UNCHANGED <<pgFrame, pder, srvLsn, excluded_ids, lsnTodo, tried, refAtEntry,
                   proper, initNil>>

\* p.Release(poolConn, id): the caller gives back a connection of Db d, with
\* the ServerID id it was handed under.
PgRelease(d, id) ==
    /\ ppc = "idle"
    /\ conns[<<d, id>>] > 0
    /\ pder' = releaseByID(pder, id)
    /\ conns' = [conns EXCEPT ![<<d, id>>] = @ - 1]
    /\ pres' = [op |-> "Release", done |-> TRUE, conn |-> d, id |-> id,
                err |-> NilErr, panic |-> FALSE, ref |-> refOf(pder, id)]
    /\ PgForget
    /\ UNCHANGED <<pgFrame, ppc, excluded_ids, lsnTodo, pool_conn, proper, initNil>>

\* p.Release(poolConn, id) once more, with the connection just given back.
PgReleaseAgain ==
    /\ ppc = "idle"
    /\ pres.op = "Release"
    /\ pder' = releaseByID(pder, pres.id)
    /\ proper' = FALSE
    /\ pres' = [pres EXCEPT !.ref = refOf(pder, pres.id)]
    /\ PgForget
    /\ UNCHANGED <<pgFrame, conns, ppc, excluded_ids, lsnTodo, pool_conn, initNil>>

PgWatermarks == {"", LSNText[1]}

\* provides after the init() of pgds: ds.Register("pg", pder).
PgSpecInit ==
    /\ RouterInit(PrimaryOnly)
    /\ newDB(TRUE)
    /\ NoProviders
    /\ factories = << >>
    /\ provides = RegisterV1(<< >>, ProviderID, "pgds.pder").reg
    /\ rlast = NoCall
    /\ HookInit
    /\ NotCounting
    /\ PgInit
    /\ NoThreads

PgNext ==
    \/ \E a \in PgParams : PgNewProvider(a)
    \/ PgCallGetPrimary
    \/ \E lsn \in PgWatermarks : PgCallGetSecondary(lsn)
    \/ PgPrimaryStep
    \/ PgSrvLoop
    \/ \E id \in PgSecondaryIDs : PgLsnStep(id)
    \/ PgLsnEnd
    \/ \E d \in PgDbs, id \in PgTags : PgRelease(d, id)
    \/ PgReleaseAgain

PgSpec == PgSpecInit /\ [][PgNext]_<<vars, sideVars>>

\* The provider with every round of srv_loop coming to its end: addRef and
\* Pool.Acquire return.
RoundsEnd == WF_<<vars, sideVars>>(PgSrvLoop)

PgTermSpec == PgSpecInit /\ [][PgNext]_<<vars, sideVars>> /\ RoundsEnd

(* ---------------- properties of the ref-counting provider --------------- *)

\* A GetSecondary call has returned (without a panic).
PgReturned(opName) == pres.op = opName /\ pres.done /\ ~pres.panic

\* C24: a connection GetSecondary returns for a non-empty srvLsn is either the
\* primary's under PRIMARY_ID or a secondary's under that secondary's own
\* ServerID (srv_id, which the code assigns only after the check of that
\* secondary's position has reported that it fits); the ServerID is never empty.
C24_LsnBranchChecked ==
    (PgReturned("GetSecondary") /\ srvLsn # "" /\ pres.conn # NilConn) =>
        /\ pres.id # ""
        /\ \/ pres.conn = PRIMARY_ID /\ pres.id = PRIMARY_ID
           \/ pres.conn \in PgSecondaryIDs /\ pres.id = pres.conn

\* The secondaries the least-busy loop attempted before its k-th attempt.
TriedBefore(k) == {tried[j] : j \in 1..(k - 1)}

\* C25: GetSecondary with an empty srvLsn attempts the secondaries one at a
\* time, each at most once, and each time one whose ref count (at the entry of
\* the call) none of those not yet attempted is below; every attempt but the
\* last has failed; a secondary's connection that is returned is that of the
\* last attempt, under its ServerID and without an error; and anything else
\* (the outcome of GetPrimary) is returned only after every secondary has
\* been attempted and has failed.
C25_LeastBusyFirst ==
    (PgReturned("GetSecondary") /\ srvLsn = "") =>
        /\ \A k \in 1..Len(tried) :
              /\ tried[k] \in DOMAIN refAtEntry \ TriedBefore(k)
              /\ \A id \in DOMAIN refAtEntry \ TriedBefore(k) :
                    refAtEntry[tried[k]] <= refAtEntry[id]
        /\ pres.conn \in DOMAIN refAtEntry =>
              /\ Len(tried) > 0
              /\ pres.conn = tried[Len(tried)]
              /\ pres.id = pres.conn
              /\ pres.err = NilErr
        /\ pres.conn \notin DOMAIN refAtEntry =>
              /\ TriedBefore(Len(tried) + 1) = DOMAIN refAtEntry
              /\ pres.conn \in {PRIMARY_ID, NilConn}

\* C25 witness: the call returned the busier of two secondaries, the attempt
\* on the less busy one, made first, having failed.
C25_Witness ==
    /\ PgReturned("GetSecondary")
    /\ srvLsn = ""
    /\ Len(tried) = 2
    /\ pres.conn = tried[2]
    /\ refAtEntry[tried[1]] < refAtEntry[tried[2]]

C28_RefEqualsHeld ==
    (ppc = "idle" /\ proper) =>
        \A d \in PgDbsOf(pder) : GetRefCount(PgDb(pder, d)) = HeldOf(d)

\* C29: the ref count of a Db is never negative, whatever is released and
\* however often.
C29_RefNeverNegative ==
    \A d \in PgDbsOf(pder) : GetRefCount(PgDb(pder, d)) >= 0

\* C29 witness: a connection has been released a second time, the ref count
\* of its Db being 0 already, and the count is still 0.
C29_Witness ==
    /\ pres.op = "Release"
    /\ ~proper
    /\ pres.ref = 0
    /\ refOf(pder, pres.id) = 0


\* The least-busy loop of a GetSecondary("") call is running.
InSrvLoop == ppc = "srv_loop"

\* C32: the least-busy loop terminates.  While it runs, the secondaries
\* attempted so far in the call are distinct secondaries of the provider, as
\* many as there are excluded ones, so they never outnumber the secondaries;
\* a round that does not leave the loop excludes the secondary it attempted,
\* which was not excluded before; and the loop is left, for a return or for
\* GetPrimary.
C32_SrvLoopTerminates ==
    /\ [](InSrvLoop =>
             /\ Len(tried) <= Cardinality(DOMAIN pder.Secondaries.m)
             /\ \A j, k \in 1..Len(tried) : tried[j] = tried[k] => j = k
             /\ excluded_ids = {tried[k] : k \in 1..Len(tried)}
             /\ excluded_ids \subseteq DOMAIN pder.Secondaries.m)
    /\ [][(InSrvLoop /\ InSrvLoop') =>
             /\ Len(tried') = Len(tried) + 1
             /\ tried'[Len(tried')] \notin excluded_ids
             /\ excluded_ids' = excluded_ids \cup {tried'[Len(tried')]}]_pgVars
    /\ InSrvLoop ~> ~InSrvLoop

\* The loop has attempted every one of two or more secondaries, each has
\* failed, and the call has gone on to GetPrimary.
C32_Witness ==
    /\ ppc = "primary"
    /\ pres.op = "GetSecondary"
    /\ srvLsn = ""
    /\ ~pder.Secondaries.nil
    /\ Len(tried) >= 2
    /\ Len(tried) = Cardinality(DOMAIN pder.Secondaries.m)

====
